---- MODULE Spec2Model ----
(***************************************************************************)
(* Guideline corpus chunking and hybrid retrieval engine of AuDRA.         *)
(*                                                                         *)
(*   src/src/guidelines/indexer.py    GuidelineIndexer  (chunking)         *)
(*   src/src/services/vector_store.py VectorStore       (hybrid search)    *)
(*   src/src/guidelines/retriever.py  GuidelineRetriever (rerank, retrieve)*)
(*                                                                         *)
(* Text is modelled at the grain the code looks at it.  A guideline is a   *)
(* sequence of sentences, each with its number of whitespace-separated     *)
(* words, the tokens the size patterns can see, and what precedes it: a    *)
(* heading line, a blank line (paragraph break) or a sentence boundary.    *)
(* Scores are exact rationals, kept as integers in units of 1/ScoreDen.    *)
(***************************************************************************)
EXTENDS Integers, Sequences, FiniteSets, TLC

VARIABLES
    op,                 \* the operation applied last ("init" before any)
    content,            \* chunk_guideline: the guideline content
    chunks,             \* chunk_guideline: the chunks returned
    semantic_results,   \* index: the kNN ranking of the query, best first
    keyword_results,    \* index: the lexical ranking of the query, best first
    top_k,              \* argument of hybrid_search or retrieve
    sorted_hits,        \* hybrid_search: the hits returned
    calls,              \* the collaborator calls the operation made, in order
    results,            \* rerank_results: the candidates passed in
    finding,            \* rerank_results or retrieve: the finding
    reranked,           \* rerank_results: the list returned
    use_filters,        \* argument of retrieve
    error,              \* retrieve: the exception raised, "" for none
    retrieved,          \* retrieve: the chunks returned
    query_text,         \* build_query_text: the text returned
    directory,          \* the guideline files, in sorted filename order
    store,              \* the documents of the vector store, oldest first
    uuid_counter,       \* how many chunk ids uuid4 has handed out
    stats,              \* index_all_guidelines: its counters
    fault,              \* index_all_guidelines: the collaborator call that fails
    batch_size,         \* index_all_guidelines: its batch_size argument
    operation,          \* VectorStore: the public operation under way
    backend_calls,      \* VectorStore: the backend calls the operation makes
    call_index,         \* VectorStore: which of them is under way
    attempt,            \* _execute_with_retry: the loop variable
    last_error,         \* _execute_with_retry: the exception caught last
    attempts,           \* the backend's answers so far, one per attempt
    responses           \* what _execute_with_retry returned, one per call

chunkVars == <<content, chunks>>
indexVars == <<semantic_results, keyword_results>>
hybridVars == <<top_k, sorted_hits, calls>>
rerankVars == <<results, finding, reranked>>
retrieveVars == <<use_filters, error, retrieved>>
queryVars == <<query_text>>
ingestVars == <<directory, store, uuid_counter, stats, fault, batch_size>>
retryVars == <<operation, backend_calls, call_index, attempt, last_error, attempts,
               responses>>
vars == <<op, chunkVars, indexVars, hybridVars, rerankVars, retrieveVars, queryVars,
          ingestVars, retryVars>>

---------------------------------------------------------------------------
(* Program constants (GuidelineIndexer class attributes).                 *)
MIN_WORDS == 100
TARGET_MIN_WORDS == 200
MAX_WORDS == 500
OPEN_ENDED_MAX == 999

(* Bounds of the model.                                                    *)
MaxSentences == 4       \* sentences in one guideline
MaxToks == 4            \* tokens of the text the size patterns scan
MaxHits == 3            \* hits in one ranking of the index
MaxTopK == 2            \* largest top_k asked for
MaxResults == 2         \* candidates passed to rerank_results

(* Word counts of a sentence: under MIN_WORDS, between MIN_WORDS and       *)
(* TARGET_MIN_WORDS, close to MAX_WORDS, and over MAX_WORDS.               *)
WordSamples == {60, 150, 450, 520}

(* What precedes a sentence in the markdown.                               *)
Breaks == {"head", "para", "sent"}

(* Tokens the size patterns distinguish.  ">=" stands for both spellings   *)
(* the pattern accepts, "-" is the hyphen, "en dash" the dash of "6-8 mm"  *)
(* as typeset, "w" any other word or punctuation.                          *)
NumTokens == {"6", "8", "12"}
Tokens == NumTokens \cup {"-", "en dash", "mm", ">=", "<=", "<", ">", "w"}

Min(S) == CHOOSE x \in S : \A y \in S : x <= y

---------------------------------------------------------------------------
(* GuidelineIndexer._word_count over a body: a body is a sequence of       *)
(* paragraphs, a paragraph a sequence of sentences; joining with blanks or *)
(* blank lines adds no word.                                               *)
RECURSIVE SentenceWords(_)
SentenceWords(sentences) ==
    IF sentences = <<>> THEN 0
    ELSE Head(sentences).n + SentenceWords(Tail(sentences))

RECURSIVE _word_count(_)
_word_count(body) ==
    IF body = <<>> THEN 0
    ELSE SentenceWords(Head(body)) + _word_count(Tail(body))

(* GuidelineIndexer._parse_sections: a heading opens a section; text before*)
(* the first heading, or a text without headings, is the "Overview".  A    *)
(* heading of no words (n = 0) is a heading with nothing below it: its     *)
(* section has an empty body and is left out.                              *)
RECURSIVE ParseFrom(_, _, _)
ParseFrom(c, i, sections) ==
    IF i > Len(c) THEN sections
    ELSE LET b == c[i]
             s == [n |-> b.n, toks |-> b.toks]
             k == Len(sections)
         IN  IF b.brk = "head"
             THEN ParseFrom(c, i + 1,
                    Append(sections, [title |-> b.title, level |-> 2,
                                      body |-> IF b.n = 0 THEN <<>> ELSE << <<s>> >>]))
             ELSE IF k = 0
             THEN ParseFrom(c, i + 1,
                    <<[title |-> <<"Overview">>, level |-> 2, body |-> << <<s>> >>]>>)
             ELSE IF b.brk = "para"
             THEN ParseFrom(c, i + 1,
                    [sections EXCEPT ![k].body = Append(@, <<s>>)])
             ELSE ParseFrom(c, i + 1,
                    [sections EXCEPT ![k].body = [@ EXCEPT ![Len(@)] = Append(@, s)]])

_parse_sections(c) ==
    SelectSeq(ParseFrom(c, 1, <<>>), LAMBDA section : section.body # <<>>)

(* _split_large_section, first loop: accumulate paragraphs, flush when the *)
(* next one would push the buffer over MAX_WORDS.                          *)
RECURSIVE SplitParagraphs(_, _, _)
SplitParagraphs(paragraphs, current, out) ==
    IF paragraphs = <<>>
    THEN IF current # <<>> THEN Append(out, current) ELSE out
    ELSE LET paragraph == Head(paragraphs)
             candidate == Append(current, paragraph)
         IN  IF current # <<>> /\ _word_count(candidate) > MAX_WORDS
             THEN SplitParagraphs(Tail(paragraphs), <<paragraph>>, Append(out, current))
             ELSE SplitParagraphs(Tail(paragraphs), candidate, out)

(* SENTENCE_SPLIT_PATTERN.split: the sentences of a piece, in order.       *)
RECURSIVE Sentences(_)
Sentences(body) ==
    IF body = <<>> THEN <<>> ELSE Head(body) \o Sentences(Tail(body))

(* _split_large_section, second loop, for one oversized piece: the same    *)
(* accumulate-and-flush over its sentences, joined by single blanks.       *)
RECURSIVE SplitSentences(_, _, _)
SplitSentences(sentences, sentence_buffer, out) ==
    IF sentences = <<>>
    THEN IF sentence_buffer # <<>> THEN Append(out, <<sentence_buffer>>) ELSE out
    ELSE LET sentence == Head(sentences)
             candidate == Append(sentence_buffer, sentence)
         IN  IF sentence_buffer # <<>> /\ SentenceWords(candidate) > MAX_WORDS
             THEN SplitSentences(Tail(sentences), <<sentence>>,
                                 Append(out, <<sentence_buffer>>))
             ELSE SplitSentences(Tail(sentences), candidate, out)

RECURSIVE NormalizePieces(_)
NormalizePieces(pieces) ==
    IF pieces = <<>> THEN <<>>
    ELSE LET piece == Head(pieces)
         IN  (IF _word_count(piece) <= MAX_WORDS
              THEN <<piece>>
              ELSE SplitSentences(Sentences(piece), <<>>, <<>>))
             \o NormalizePieces(Tail(pieces))

_split_large_section(body) ==
    IF body = <<>> THEN <<body>>
    ELSE NormalizePieces(SplitParagraphs(body, <<>>, <<>>))

(* chunk_guideline, first loop: the pieces of every section, titled        *)
(* "<title> (part N)" when the section was split.                          *)
RECURSIVE TitledParts(_, _, _)
TitledParts(section, splits, idx) ==
    IF idx > Len(splits) THEN <<>>
    ELSE <<[title |-> IF Len(splits) > 1
                      THEN Append(section.title, "(part " \o ToString(idx) \o ")")
                      ELSE section.title,
            level |-> section.level,
            body |-> splits[idx],
            word_count |-> _word_count(splits[idx])]>>
         \o TitledParts(section, splits, idx + 1)

RECURSIVE ProcessSections(_)
ProcessSections(sections) ==
    IF sections = <<>> THEN <<>>
    ELSE LET section == Head(sections)
         IN  (IF section.body = <<>> THEN <<>>
              ELSE TitledParts(section, _split_large_section(section.body), 1))
             \o ProcessSections(Tail(sections))

(* _merge_small_sections.  The buffer is <<>> (None) or <<section>>.       *)
JoinSections(a, b) ==
    [title |-> a.title \o <<"|">> \o b.title,
     body |-> a.body \o b.body,
     word_count |-> _word_count(a.body \o b.body)]

Plain(section) ==
    [title |-> section.title, body |-> section.body, word_count |-> section.word_count]

(* A merge that flushes the buffer at every section, whatever its size.    *)
RECURSIVE MergeFromEagerFlush(_, _, _)
MergeFromEagerFlush(sections, merged, buffer) ==
    IF sections = <<>>
    THEN IF buffer # <<>>
         THEN IF merged # <<>>
              THEN [merged EXCEPT ![Len(merged)] = JoinSections(@, buffer[1])]
              ELSE Append(merged, buffer[1])
         ELSE merged
    ELSE LET section == Head(sections)
             flushed == IF buffer # <<>> THEN Append(merged, buffer[1]) ELSE merged
         IN  IF section.word_count < MIN_WORDS
             THEN MergeFromEagerFlush(Tail(sections), flushed, <<Plain(section)>>)
             ELSE MergeFromEagerFlush(Tail(sections), Append(flushed, Plain(section)), <<>>)

(* A merge that drops a leftover buffer nothing was emitted before.        *)
RECURSIVE MergeFromDropLeftover(_, _, _)
MergeFromDropLeftover(sections, merged, buffer) ==
    IF sections = <<>>
    THEN IF buffer # <<>> /\ merged # <<>>
         THEN [merged EXCEPT ![Len(merged)] = JoinSections(@, buffer[1])]
         ELSE merged
    ELSE LET section == Head(sections)
             word_count == section.word_count
         IN  IF buffer # <<>> /\ _word_count(buffer[1].body) < TARGET_MIN_WORDS
             THEN MergeFromDropLeftover(Tail(sections), merged,
                                        <<JoinSections(buffer[1], section)>>)
             ELSE LET flushed == IF buffer # <<>> THEN Append(merged, buffer[1]) ELSE merged
                  IN  IF word_count < MIN_WORDS
                      THEN MergeFromDropLeftover(Tail(sections), flushed, <<Plain(section)>>)
                      ELSE MergeFromDropLeftover(Tail(sections),
                                                 Append(flushed, Plain(section)), <<>>)

RECURSIVE MergeFrom(_, _, _)
MergeFrom(sections, merged, buffer) ==
    IF sections = <<>>
    THEN IF buffer # <<>>
         THEN IF merged # <<>>
              THEN [merged EXCEPT ![Len(merged)] = JoinSections(@, buffer[1])]
              ELSE Append(merged, buffer[1])
         ELSE merged
    ELSE LET section == Head(sections)
             word_count == section.word_count
         IN  IF buffer # <<>> /\ _word_count(buffer[1].body) < TARGET_MIN_WORDS
             THEN MergeFrom(Tail(sections), merged, <<JoinSections(buffer[1], section)>>)
             ELSE LET flushed == IF buffer # <<>> THEN Append(merged, buffer[1]) ELSE merged
                  IN  IF word_count < MIN_WORDS
                      THEN MergeFrom(Tail(sections), flushed, <<Plain(section)>>)
                      ELSE MergeFrom(Tail(sections), Append(flushed, Plain(section)), <<>>)

_merge_small_sections(sections) == MergeFrom(sections, <<>>, <<>>)

---------------------------------------------------------------------------
(* The text the metadata inference scans: title, blank line, body.  A      *)
(* sentence without size tokens is plain words; sentences of one paragraph *)
(* are separated by the punctuation the sentence pattern splits after;     *)
(* paragraphs, and title and body, by white space only.                    *)
SentenceToks(s) == IF s.toks = <<>> THEN <<"w">> ELSE s.toks

RECURSIVE ParagraphToks(_)
ParagraphToks(p) ==
    IF p = <<>> THEN <<>>
    ELSE IF Len(p) = 1 THEN SentenceToks(p[1])
    ELSE SentenceToks(p[1]) \o <<"w">> \o ParagraphToks(Tail(p))

RECURSIVE BodyToks(_)
BodyToks(body) ==
    IF body = <<>> THEN <<>> ELSE ParagraphToks(Head(body)) \o BodyToks(Tail(body))

ChunkText(title, body) == title \o BodyToks(body)

(* The same text with its line boundaries kept: "LF" is a newline, "FF" a  *)
(* form feed inside a sentence or a title; f"{title}\n\n{body}".strip(),   *)
(* the paragraphs of a body being joined by blank lines.                   *)
LineBreaks == {"LF", "FF"}

RECURSIVE BodyString(_)
BodyString(body) ==
    IF body = <<>> THEN <<>>
    ELSE IF Len(body) = 1 THEN ParagraphToks(body[1])
    ELSE ParagraphToks(body[1]) \o <<"LF", "LF">> \o BodyString(Tail(body))

RECURSIVE StripBreaks(_)
StripBreaks(str) ==
    IF str = <<>> THEN <<>>
    ELSE IF Head(str) \in LineBreaks THEN StripBreaks(Tail(str))
    ELSE IF str[Len(str)] \in LineBreaks THEN StripBreaks(SubSeq(str, 1, Len(str) - 1))
    ELSE str

TextLinesOneNewline(title, body) == StripBreaks(title \o <<"LF">> \o BodyString(body))

TextLines(title, body) == StripBreaks(title \o <<"LF", "LF">> \o BodyString(body))

(* float(match.group(k)) of a number token.                                *)
NumVal(t) == CASE t = "6" -> 6 [] t = "8" -> 8 [] t = "12" -> 12

(* SIZE_PATTERNS, in the order the code tries them; "NUM" is the group     *)
(* (\d+(?:\.\d+)?) and \s* between the parts is the tokens' adjacency.     *)
SIZE_PATTERNS ==
    << [pat |-> <<"NUM", "-", "NUM", "mm">>, kind |-> "range"],
       [pat |-> <<">=", "NUM", "mm">>, kind |-> "gte"],
       [pat |-> <<"<=", "NUM", "mm">>, kind |-> "lte"],
       [pat |-> <<"<", "NUM", "mm">>, kind |-> "lt"],
       [pat |-> <<">", "NUM", "mm">>, kind |-> "gt"],
       [pat |-> <<"NUM", "mm">>, kind |-> "single"] >>

MatchAt(text, i, pat) ==
    /\ i + Len(pat) - 1 <= Len(text)
    /\ \A j \in 1..Len(pat) :
          IF pat[j] = "NUM" THEN text[i + j - 1] \in NumTokens
          ELSE text[i + j - 1] = pat[j]

(* pattern.search: the position of the leftmost match, 0 for no match.     *)
Search(text, pat) ==
    LET at == {i \in 1..Len(text) : MatchAt(text, i, pat)}
    IN  IF at = {} THEN 0 ELSE Min(at)

(* The groups of the match at i: the number tokens it covers, in order.    *)
Groups(text, i, pat) ==
    LET idx == {j \in 1..Len(pat) : pat[j] = "NUM"}
        first == Min(idx)
        rest == idx \ {first}
    IN  IF rest = {} THEN <<NumVal(text[i + first - 1])>>
        ELSE <<NumVal(text[i + first - 1]), NumVal(text[i + Min(rest) - 1])>>

RangeOfMatch(kind, groups) ==
    IF kind = "range" THEN [min |-> <<groups[1]>>, max |-> <<groups[2]>>]
    ELSE IF kind \in {"gte", "gt"} THEN [min |-> <<groups[1]>>, max |-> <<OPEN_ENDED_MAX>>]
    ELSE IF kind \in {"lte", "lt"} THEN [min |-> <<0>>, max |-> <<groups[1]>>]
    ELSE [min |-> <<groups[1]>>, max |-> <<groups[1]>>]

RECURSIVE ExtractFrom(_, _)
ExtractFrom(text, k) ==
    IF k > Len(SIZE_PATTERNS) THEN [min |-> <<>>, max |-> <<>>]
    ELSE LET p == SIZE_PATTERNS[k]
             i == Search(text, p.pat)
         IN  IF i = 0 THEN ExtractFrom(text, k + 1)
             ELSE RangeOfMatch(p.kind, Groups(text, i, p.pat))

(* _extract_size_range: an optional float is <<>> (None) or <<v>>.         *)
_extract_size_range(text) == ExtractFrom(text, 1)

---------------------------------------------------------------------------
(* text.lower() of a token; the risk phrases and the modality words are    *)
(* tokens of their own.                                                    *)
LowerTok(t) ==
    CASE t = "High risk" -> "high risk"
      [] t = "Intermediate risk" -> "intermediate risk"
      [] t = "CT" -> "ct"
      [] t = "PET/CT" -> "pet/ct"
      [] OTHER -> t

S_mixed == <<"m", "i", "x", "e", "d">>

(* An inference that answers with the first phrase it finds.               *)
InferFirstRisk(text) ==
    LET lowered == [i \in 1..Len(text) |-> LowerTok(text[i])]
        Has(phrase) == \E i \in 1..Len(lowered) : lowered[i] = phrase
    IN  IF Has("high risk") THEN <<"h", "i", "g", "h">>
        ELSE IF Has("low risk") THEN <<"l", "o", "w">>
        ELSE IF Has("intermediate risk")
        THEN <<"i", "n", "t", "e", "r", "m", "e", "d", "i", "a", "t", "e">>
        ELSE <<>>

(* GuidelineIndexer._infer_risk_level: <<>> is None.                       *)
_infer_risk_level(text) ==
    LET lowered == [i \in 1..Len(text) |-> LowerTok(text[i])]
        Has(phrase) == \E i \in 1..Len(lowered) : lowered[i] = phrase
        matches ==
            (IF Has("high risk") THEN {<<"h", "i", "g", "h">>} ELSE {})
            \cup (IF Has("low risk") THEN {<<"l", "o", "w">>} ELSE {})
            \cup (IF Has("intermediate risk")
                  THEN {<<"i", "n", "t", "e", "r", "m", "e", "d", "i", "a", "t", "e">>}
                  ELSE {})
    IN  IF matches = {} THEN <<>>
        ELSE IF Cardinality(matches) = 1 THEN CHOOSE m \in matches : TRUE
        ELSE S_mixed

(* GuidelineIndexer.MODALITY_KEYWORDS: the word each pattern looks for     *)
(* between word boundaries, any case.                                      *)
MODALITY_KEYWORDS ==
    << [word |-> "pet/ct", modality |-> "PET-CT"], [word |-> "pet", modality |-> "PET"],
       [word |-> "mri", modality |-> "MRI"], [word |-> "ldct", modality |-> "CT"],
       [word |-> "ct", modality |-> "CT"],
       [word |-> "ultrasound", modality |-> "Ultrasound"],
       [word |-> "ceus", modality |-> "CEUS"], [word |-> "biopsy", modality |-> "Biopsy"] >>

(* The words a token holds: "pet/ct" is also "pet" and "ct".               *)
WordsOfTok(t) ==
    IF LowerTok(t) = "pet/ct" THEN {"pet/ct", "pet", "ct"} ELSE {LowerTok(t)}

(* GuidelineIndexer._infer_modality: "" is None.                           *)
_infer_modality(text) ==
    LET found == {k \in 1..Len(MODALITY_KEYWORDS) :
                    \E i \in 1..Len(text) : MODALITY_KEYWORDS[k].word \in WordsOfTok(text[i])}
    IN  IF found = {} THEN "" ELSE MODALITY_KEYWORDS[Min(found)].modality

---------------------------------------------------------------------------
(* chunk_guideline, last loop: one chunk per merged section.               *)
RECURSIVE BuildChunks(_, _)
BuildChunks(merged_sections, source_name) ==
    IF merged_sections = <<>> THEN <<>>
    ELSE LET section == Head(merged_sections)
             text == ChunkText(section.title, section.body)
             size == _extract_size_range(text)
         IN  (IF section.body = <<>> THEN <<>>
              ELSE <<[text |-> text,
                      source |-> source_name,
                      category |-> section.title,
                      size_min_mm |-> size.min,
                      size_max_mm |-> size.max,
                      risk_level |-> _infer_risk_level(text),
                      recommendation |-> section.body,
                      citation |-> "",
                      modality |-> _infer_modality(text)]>>)
             \o BuildChunks(Tail(merged_sections), source_name)

(* content.strip() of a content without a section: nothing at all, or     *)
(* heading lines only, each "##" and its title, in one paragraph.          *)
HeadingLines(c) ==
    IF c = <<>> THEN <<>>
    ELSE << [i \in 1..Len(c) |->
                [n |-> 1 + Len(c[i].title), toks |-> <<"w">> \o c[i].title]] >>

SectionsOf(c) ==
    IF _parse_sections(c) # <<>> THEN _parse_sections(c)
    ELSE <<[title |-> <<"Overview">>, level |-> 2, body |-> HeadingLines(c)]>>

chunk_guideline(c, source_name) ==
    BuildChunks(_merge_small_sections(ProcessSections(SectionsOf(c))), source_name)

(* Scores.  hybrid_search adds weight * 1/(rrf_k + rank) with weights 0.7  *)
(* and 0.3; a score is kept as an integer number of 1/ScoreDen, ScoreDen a *)
(* multiple of 10 and of every rrf_k + rank, so that the sums are exact.   *)
rrf_k == 60
weight_semantic == 7    \* tenths: 0.7
weight_keyword == 3     \* tenths: 0.3

RECURSIVE RankProduct(_)
RankProduct(r) == IF r = 0 THEN 1 ELSE (rrf_k + r) * RankProduct(r - 1)

ScoreDen == 10 * RankProduct(MaxHits)
Tenth == ScoreDen \div 10

Take(seq, n) == IF n <= 0 THEN <<>> ELSE SubSeq(seq, 1, IF n < Len(seq) THEN n ELSE Len(seq))

(* list.sort(key=score, reverse=True) and sorted(..., reverse=True): Python *)
(* sorts stably, also in reverse: equal scores keep their input order.     *)
RECURSIVE InsertTiesReversed(_, _)
InsertTiesReversed(sorted, x) ==
    IF sorted = <<>> THEN <<x>>
    ELSE IF Head(sorted).score > x.score
    THEN <<Head(sorted)>> \o InsertTiesReversed(Tail(sorted), x)
    ELSE <<x>> \o sorted

RECURSIVE InsertByScore(_, _)
InsertByScore(sorted, x) ==
    IF sorted = <<>> THEN <<x>>
    ELSE IF Head(sorted).score >= x.score
    THEN <<Head(sorted)>> \o InsertByScore(Tail(sorted), x)
    ELSE <<x>> \o sorted

RECURSIVE SortFrom(_, _)
SortFrom(seq, acc) ==
    IF seq = <<>> THEN acc ELSE SortFrom(Tail(seq), InsertByScore(acc, Head(seq)))

SortByScoreDesc(seq) == SortFrom(seq, <<>>)

(* VectorStore._semantic_search / _keyword_search: the first top_k hits of *)
(* the index's ranking, as _format_hits returns them.                      *)
_semantic_search(ranking, k) == Take(ranking, k)
_keyword_search(ranking, k) == Take(ranking, k)

IndexOfId(hits, id) ==
    LET at == {i \in 1..Len(hits) : hits[i].id = id}
    IN  IF at = {} THEN 0 ELSE Min(at)

(* weight * (1.0 / (rrf_k + rank)), rank counted from 1.                   *)
RrfZeroIndexed(weight, rank) == weight * (Tenth \div (rrf_k + rank - 1))

Rrf(weight, rank) == weight * (Tenth \div (rrf_k + rank))

(* One fusion loop of hybrid_search.  fused is the dict in insertion       *)
(* order; setdefault(doc_id, hit.copy()) keeps the hit's own "score", and  *)
(* the contribution is added to whatever score the entry holds.            *)
RECURSIVE FuseList(_, _, _, _)
FuseList(fused, hits, rank, weight) ==
    IF hits = <<>> THEN fused
    ELSE LET hit == Head(hits)
             score == Rrf(weight, rank)
             seen == IndexOfId(fused, hit.id)
             entered == IF seen = 0 THEN Append(fused, hit) ELSE fused
             at == IF seen = 0 THEN Len(entered) ELSE seen
         IN  FuseList([entered EXCEPT ![at].score = @ + score],
                      Tail(hits), rank + 1, weight)

hybrid_search(semantic_ranking, keyword_ranking, k) ==
    LET semantic == _semantic_search(semantic_ranking, k * 3)
        keyword == _keyword_search(keyword_ranking, k * 3)
        fused == FuseList(FuseList(<<>>, semantic, 1, weight_semantic),
                          keyword, 1, weight_keyword)
    IN  Take(SortByScoreDesc(fused), k)

HybridCalls(k) ==
    << [fn |-> "_semantic_search", top_k |-> k * 3],
       [fn |-> "_keyword_search", top_k |-> k * 3] >>

---------------------------------------------------------------------------
(* Values of the untyped mappings (findings, hit metadata): None, a number *)
(* or a text that is no number.  A string that is inspected is a sequence  *)
(* of characters, <<>> being None or the empty string (both falsy).        *)
None == [t |-> "none", v |-> 0]
Num(x) == [t |-> "num", v |-> x]
Text == [t |-> "str", v |-> 0]

(* GuidelineRetriever._coerce_float: <<>> for None, <<v>> for float(v).    *)
_coerce_float(value) == IF value.t = "num" THEN <<value.v>> ELSE <<>>

LowerChar(c) ==
    CASE c = "H" -> "h" [] c = "I" -> "i" [] c = "G" -> "g" [] c = "L" -> "l"
      [] c = "O" -> "o" [] c = "W" -> "w" [] c = "R" -> "r" [] c = "U" -> "u"
      [] OTHER -> c

Lower(str) == [i \in 1..Len(str) |-> LowerChar(str[i])]

Contains(str, sub) ==
    \E i \in 1..(Len(str) - Len(sub) + 1) : SubSeq(str, i, i + Len(sub) - 1) = sub

(* GuidelineRetriever._normalize_risk.                                     *)
_normalize_risk(value) ==
    IF value = <<>> THEN <<>>
    ELSE LET lowered == Lower(value)
         IN  IF Contains(lowered, <<"h", "i", "g", "h">>) THEN <<"h", "i", "g", "h">>
             ELSE IF Contains(lowered, <<"i", "n", "t", "e", "r", "m", "e", "d", "i", "a", "t", "e">>)
             THEN <<"i", "n", "t", "e", "r", "m", "e", "d", "i", "a", "t", "e">>
             ELSE IF Contains(lowered, <<"l", "o", "w">>) THEN <<"l", "o", "w">>
             ELSE <<>>

(* The literals of rerank_results: +2.0, distance / 10.0, 1.5, +0.5.       *)
size_match_boost == 2
penalty_divisor == 10
penalty_cap == 15       \* tenths: 1.5
risk_match_boost == 5   \* tenths: 0.5

Abs(x) == IF x < 0 THEN -x ELSE x
Larger(a, b) == IF a >= b THEN a ELSE b

(* min(a, b).                                                              *)
Smaller(a, b) == IF a <= b THEN a ELSE b

(* The body of the loop of rerank_results: the adjusted copy of one doc.   *)
AdjustedNoRiskBoost(doc, target_size, risk_level) ==
    LET size_min == _coerce_float(doc.metadata.size_min_mm)
        size_max == _coerce_float(doc.metadata.size_max_mm)
    IN  [doc EXCEPT !.score =
            IF target_size # <<>> /\ size_min # <<>> /\ size_max # <<>>
            THEN IF size_min[1] <= target_size[1] /\ target_size[1] <= size_max[1]
                 THEN @ + size_match_boost * ScoreDen
                 ELSE @ - Smaller(
                        Smaller(Abs(target_size[1] - size_min[1]),
                                Abs(target_size[1] - size_max[1])) * (ScoreDen \div penalty_divisor),
                        penalty_cap * Tenth)
            ELSE @]

Adjusted(doc, target_size, risk_level) ==
    LET size_min == _coerce_float(doc.metadata.size_min_mm)
        size_max == _coerce_float(doc.metadata.size_max_mm)
        chunk_risk == doc.metadata.risk_level
        sized ==
            IF target_size # <<>> /\ size_min # <<>> /\ size_max # <<>>
            THEN IF size_min[1] <= target_size[1] /\ target_size[1] <= size_max[1]
                 THEN doc.score + size_match_boost * ScoreDen
                 ELSE doc.score - Smaller(
                        Smaller(Abs(target_size[1] - size_min[1]),
                                Abs(target_size[1] - size_max[1])) * (ScoreDen \div penalty_divisor),
                        penalty_cap * Tenth)
            ELSE doc.score
    IN  [doc EXCEPT !.score =
            IF risk_level # <<>> /\ chunk_risk # <<>> /\ Lower(chunk_risk) = risk_level
            THEN sized + risk_match_boost * Tenth
            ELSE sized]

(* The list passed to rerank_results as the caller finds it afterwards:    *)
(* the loop reads doc.score into a local and builds a new                  *)
(* RetrievedDocument, so no document of the list is assigned to.           *)
ResultsAfterInPlace(docs, f) ==
    [i \in 1..Len(docs) |->
        Adjusted(docs[i], _coerce_float(f.size_mm), _normalize_risk(f.risk_level))]

ResultsAfter(docs, f) == docs

rerank_results(docs, f) ==
    LET target_size == _coerce_float(f.size_mm)
        risk_level == _normalize_risk(f.risk_level)
    IN  SortByScoreDesc([i \in 1..Len(docs) |-> Adjusted(docs[i], target_size, risk_level)])

---------------------------------------------------------------------------
(* The guideline sources the retriever knows.                              *)
Fleischner == "Fleischner Society Pulmonary Nodule Recommendations (2017)"
LungRads == "ACR Lung-RADS v2022 (Lung CT Screening Reporting & Data System)"
LiverLesions == "ACR Incidental Findings Committee - Management of Incidental Liver Lesions on CT (2017)"

(* A stored source that spells the first name in capitals.                 *)
FLEISCHNER == "FLEISCHNER SOCIETY PULMONARY NODULE RECOMMENDATIONS (2017)"

(* A filter clause that leaves the patient_risk term out.                 *)
MatchesSizeOnly(hit, filters) ==
    filters.finding_size # <<>> =>
        /\ hit.metadata.size_min_mm.t = "num" /\ hit.metadata.size_max_mm.t = "num"
        /\ hit.metadata.size_min_mm.v <= filters.finding_size[1]
        /\ hit.metadata.size_max_mm.v >= filters.finding_size[1]

(* VectorStore.search: kNN with the filter clause _build_filter_clause     *)
(* builds: both range clauses for a numeric finding_size, a term clause    *)
(* for a patient_risk string; a document lacking a filtered field does not *)
(* match.  An absent filter key is <<>>.                                   *)
MatchesFilters(hit, filters) ==
    /\ filters.finding_size # <<>> =>
          /\ hit.metadata.size_min_mm.t = "num" /\ hit.metadata.size_max_mm.t = "num"
          /\ hit.metadata.size_min_mm.v <= filters.finding_size[1]
          /\ hit.metadata.size_max_mm.v >= filters.finding_size[1]
    /\ filters.patient_risk # <<>> => hit.metadata.risk_level = filters.patient_risk

search(ranking, k, filters) ==
    Take(SelectSeq(ranking, LAMBDA hit : MatchesFilters(hit, filters)), k)

(* str.lower() of a source name.                                           *)
SameName(name) == name

LowerName(name) ==
    CASE name \in {Fleischner, FLEISCHNER} ->
            "fleischner society pulmonary nodule recommendations (2017)"
      [] name = LungRads -> "acr lung-rads v2022 (lung ct screening reporting & data system)"
      [] name = LiverLesions ->
            "acr incidental findings committee - management of incidental liver lesions on ct (2017)"
      [] OTHER -> name

(* GuidelineRetriever._infer_sources: keywords in the lower-cased type and *)
(* location of the finding.                                                *)
_infer_sources(f) ==
    LET text == IF f.type # <<>> /\ f.location # <<>>
                THEN Lower(f.type) \o <<" ">> \o Lower(f.location)
                ELSE Lower(f.type) \o Lower(f.location)
    IN  (IF \/ Contains(text, <<"l", "u", "n", "g">>)
            \/ Contains(text, <<"p", "u", "l", "m", "o", "n">>)
            \/ Contains(text, <<"n", "o", "d", "u", "l", "e">>)
         THEN <<Fleischner, LungRads>> ELSE <<>>)
        \o (IF \/ Contains(text, <<"l", "i", "v", "e", "r">>)
               \/ Contains(text, <<"h", "e", "p", "a", "t", "i", "c">>)
            THEN <<LiverLesions>> ELSE <<>>)

(* GuidelineRetriever._build_filters; an absent key is <<>>.               *)
_build_filters(f) ==
    [finding_size |-> _coerce_float(f.size_mm),
     patient_risk |-> _normalize_risk(f.risk_level),
     sources |-> _infer_sources(f)]

NoFilters == [finding_size |-> <<>>, patient_risk |-> <<>>, sources |-> <<>>]

(* filters.pop("sources", None): the mapping left after the pop.           *)
KeepSources(filters) == filters

PopSources(filters) == [filters EXCEPT !.sources = <<>>]

(* A text is a sequence of lines, "" being a blank line; str.strip() drops *)
(* the blank lines at both ends (lines carry no outer whitespace).         *)
RECURSIVE Strip(_)
Strip(lines) ==
    IF lines = <<>> THEN <<>>
    ELSE IF Head(lines) = "" THEN Strip(Tail(lines))
    ELSE IF lines[Len(lines)] = "" THEN Strip(SubSeq(lines, 1, Len(lines) - 1))
    ELSE lines

(* str.splitlines(): the lines of a string, which end at a newline and at  *)
(* a form feed alike; an empty line is "".                                 *)
RECURSIVE SplitFrom(_, _, _)
SplitFrom(str, line, lines) ==
    IF str = <<>>
    THEN IF line = <<>> THEN lines ELSE Append(lines, line)
    ELSE IF Head(str) \in LineBreaks
    THEN SplitFrom(Tail(str), <<>>, Append(lines, IF line = <<>> THEN "" ELSE line))
    ELSE SplitFrom(Tail(str), Append(line, Head(str)), lines)

SplitLines(str) == SplitFrom(str, <<>>, <<>>)

(* "\n".join(lines).                                                       *)
RECURSIVE JoinLines(_)
JoinLines(lines) ==
    IF lines = <<>> THEN <<>>
    ELSE (IF Head(lines) = "" THEN <<>> ELSE Head(lines))
         \o (IF Len(lines) = 1 THEN <<>> ELSE <<"LF">> \o JoinLines(Tail(lines)))

(* GuidelineRetriever._extract_recommendation.                             *)
ExtractWholeText(text) == Strip(text)

_extract_recommendation(text) ==
    IF text = <<>> THEN <<>>
    ELSE IF Len(text) <= 1 THEN Strip(text)
    ELSE Strip(Tail(text))

(* GuidelineRetriever._to_chunk.                                           *)
(* A metadata key that is absent reads as the empty value of its type.     *)
_to_chunk(document) ==
    [chunk_id |-> document.id,
     text |-> document.text,
     source |-> IF document.metadata.source = "" THEN "Unknown source"
                ELSE document.metadata.source,
     category |-> IF document.metadata.category = "" THEN "General"
                  ELSE document.metadata.category,
     size_min_mm |-> _coerce_float(document.metadata.size_min_mm),
     size_max_mm |-> _coerce_float(document.metadata.size_max_mm),
     risk_level |-> document.metadata.risk_level,
     recommendation |-> IF document.metadata.recommendation # <<>>
                        THEN document.metadata.recommendation
                        ELSE _extract_recommendation(document.text),
     citation |-> document.metadata.citation]

(* The guard of retrieve: top_k <= 0 raises ValueError.                    *)
NegativeTopK(k) == k < 0

InvalidTopK(k) == k <= 0

(* max(top_k * 3, 15).                                                     *)
min_search_top_k == 15
SearchTopKNoFloor(k) == k * 3

SearchTopK(k) == IF k * 3 >= min_search_top_k THEN k * 3 ELSE min_search_top_k

(* GuidelineRetriever.retrieve on an index with the given rankings: the    *)
(* exception raised, the collaborator calls made, the chunks returned.     *)
retrieve(f, k, filtering, semantic_ranking, keyword_ranking) ==
    IF InvalidTopK(k)
    THEN [error |-> "ValueError", calls |-> <<>>, chunks |-> <<>>]
    ELSE LET built == IF filtering THEN _build_filters(f) ELSE NoFilters
             allowed_sources == built.sources
             filters == PopSources(built)
             search_top_k == SearchTopK(k)
             filtered == filters # NoFilters
             raw_hits == IF filtered
                         THEN search(semantic_ranking, search_top_k, filters)
                         ELSE hybrid_search(semantic_ranking, keyword_ranking, search_top_k)
             allowed == {LowerName(allowed_sources[i]) : i \in 1..Len(allowed_sources)}
             documents == IF allowed_sources # <<>>
                          THEN SelectSeq(raw_hits,
                                   LAMBDA doc : LowerName(doc.metadata.source) \in allowed)
                          ELSE raw_hits
             top_results == Take(rerank_results(documents, f), k)
         IN  [error |-> "",
              calls |-> <<[fn |-> "embed_text", top_k |-> 0]>>
                        \o (IF filtered
                            THEN <<[fn |-> "search", top_k |-> search_top_k,
                                    filters |-> filters]>>
                            ELSE <<[fn |-> "hybrid_search", top_k |-> search_top_k]>>
                                 \o HybridCalls(search_top_k)),
              chunks |-> [i \in 1..Len(top_results) |-> _to_chunk(top_results[i])]]

---------------------------------------------------------------------------
(* f"{size_mm:g}" of a whole number of millimetres: its decimal digits,    *)
(* without the ".0" that str(float) prints.                                *)
Digit(d) ==
    CASE d = 0 -> "0" [] d = 1 -> "1" [] d = 2 -> "2" [] d = 3 -> "3" [] d = 4 -> "4"
      [] d = 5 -> "5" [] d = 6 -> "6" [] d = 7 -> "7" [] d = 8 -> "8" [] d = 9 -> "9"

RECURSIVE Digits(_)
Digits(n) == IF n < 10 THEN <<Digit(n)>> ELSE Digits(n \div 10) \o <<Digit(n % 10)>>

FormatRepr(x) == Digits(x) \o <<".", "0">>

FormatG(x) == Digits(x)

S_mm == <<"m", "m">>
S_risk_patient == <<" ", "r", "i", "s", "k", " ", "p", "a", "t", "i", "e", "n", "t">>
S_placeholder == 
    <<"i", "n", "c", "i", "d", "e", "n", "t", "a", "l", " ", "i", "m", "a", "g", "i", "n", "g", " ", "f", "i", "n", "d", "i", "n", "g">>
S_suffix == 
    <<"f", "o", "l", "l", "o", "w", "-", "u", "p", " ", "r", "e", "c", "o", "m", "m", "e", "n", "d", "a", "t", "i", "o", "n">>

(* " ".join(components).                                                   *)
RECURSIVE JoinSpaces(_)
JoinSpaces(components) ==
    IF components = <<>> THEN <<>>
    ELSE IF Len(components) = 1 THEN components[1]
    ELSE components[1] \o <<" ">> \o JoinSpaces(Tail(components))

(* a or b on two strings.                                                  *)
Or(a, b) == IF a # <<>> THEN a ELSE b

(* The characteristics of a finding: a list (its falsy items are left      *)
(* out), a single string, or nothing.                                      *)
CharacteristicsOf(c) ==
    IF c.kind = "list" THEN SelectSeq(c.items, LAMBDA item : item # <<>>)
    ELSE IF c.kind = "str" /\ c.value # <<>> THEN <<c.value>>
    ELSE <<>>

(* GuidelineRetriever.build_query_text.                                    *)
build_query_text(f) ==
    LET finding_type == Or(f.type, f.finding_type)
        size_mm == _coerce_float(f.size_mm)
        location == Or(f.location, f.anatomical_location)
        risk_level == _normalize_risk(f.risk_level)
        components ==
            (IF finding_type # <<>> THEN <<finding_type>> ELSE <<>>)
            \o CharacteristicsOf(f.characteristics)
            \o (IF size_mm # <<>> THEN <<FormatG(size_mm[1]) \o S_mm>> ELSE <<>>)
            \o (IF location # <<>> THEN <<location>> ELSE <<>>)
            \o (IF risk_level # <<>> THEN <<risk_level \o S_risk_patient>> ELSE <<>>)
    IN  JoinSpaces((IF components = <<>> THEN <<S_placeholder>> ELSE components)
                   \o <<S_suffix>>)

---------------------------------------------------------------------------
(* GuidelineIndexer.load_guideline on a file that can be read.  A file is  *)
(* its name, the text of its first "# ..." line ("" when it has none), the *)
(* reference its first line mentioning one gives ("" when none does) and   *)
(* its content; without a "# ..." line the first section heading is the    *)
(* first line starting with "#", and without any the name's stem is used.  *)
TitleText(title) ==
    CASE title = <<"Subsolid", "Nodules">> -> "Subsolid Nodules"
      [] title = <<"Solid", "Nodules">> -> "Solid Nodules"
      [] title = <<"Screening">> -> "Screening"
      [] title = <<"Tiny", "Nodules">> -> "Tiny Nodules"

StemTitle(name) == CASE name = "a.md" -> "A" [] name = "b.md" -> "B" [] name = "c.md" -> "C"
      [] name = "d.md" -> "D"

FirstHeading(c) ==
    LET heads == {i \in 1..Len(c) : c[i].brk = "head"}
    IN  IF heads = {} THEN <<>> ELSE c[Min(heads)].title

load_guideline(file) ==
    [title |-> IF file.heading # "" THEN file.heading
               ELSE IF FirstHeading(file.content) # <<>>
               THEN TitleText(FirstHeading(file.content))
               ELSE StemTitle(file.name),
     citation |-> file.reference,
     content |-> file.content]

(* str(uuid.uuid4()): the n-th id handed out; no id comes twice.           *)
Uuid(n) == "uuid-" \o ToString(n)

(* chunk_guideline with the chunk ids it draws, then chunk.citation set.   *)
ChunksOf(file, counter) ==
    LET metadata == load_guideline(file)
        made == chunk_guideline(metadata.content, metadata.title)
    IN  [i \in 1..Len(made) |->
            [made[i] EXCEPT !.citation = metadata.citation]
            @@ [chunk_id |-> Uuid(counter + i)]]

(* "is not None" on an optional float, against truthiness.                 *)
IsTruthy(x) == x # <<>> /\ x[1] # 0

IsNotNone(x) == x # <<>>

(* The metadata payload of a chunk: the four keys always, an optional key  *)
(* only when the chunk has the value.                                      *)
MetadataKeys(chunk) ==
    {"source", "category", "citation", "recommendation"}
    \cup (IF IsNotNone(chunk.size_min_mm) THEN {"size_min_mm"} ELSE {})
    \cup (IF IsNotNone(chunk.size_max_mm) THEN {"size_max_mm"} ELSE {})
    \cup (IF chunk.risk_level # <<>> THEN {"risk_level"} ELSE {})
    \cup (IF chunk.modality # "" THEN {"modality"} ELSE {})

metadata_payload(chunk) ==
    [key \in MetadataKeys(chunk) |->
        CASE key = "size_min_mm" -> chunk.size_min_mm[1]
          [] key = "size_max_mm" -> chunk.size_max_mm[1]
          [] OTHER -> chunk[key]]

Documents(made) ==
    [i \in 1..Len(made) |->
        [id |-> made[i].chunk_id, text |-> made[i].text,
         metadata |-> metadata_payload(made[i])]]

(* VectorStore.index_batch: the bulk "index" action writes each document   *)
(* under its id, in the place of the document that has this id, if any.    *)
UpsertAnew(stored, documents) == documents

Upsert(stored, documents) ==
    LET ids == {documents[j].id : j \in 1..Len(documents)}
    IN  SelectSeq(stored, LAMBDA doc : doc.id \notin ids) \o documents

(* The counters before a run, and the run in which no call fails.          *)
NoStats == [guidelines_indexed |-> 0, chunks_indexed |-> 0]
NoFault == [file |-> 0, stage |-> "", partial |-> FALSE]

(* The file index_all_guidelines turns to after a file without chunks.     *)
AfterEmptyStop(files, i) == Len(files) + 1

AfterEmpty(files, i) == i + 1

(* The batch size embed_batch works with when it is given none, and the    *)
(* one index_all_guidelines works with when it is given none.              *)
embed_batch_size == 32
default_batch_size == 50

(* GuidelineIndexer.index_all_guidelines from the i-th file on.  flt names *)
(* the collaborator call that raises (file 0: none); a failing index_batch *)
(* has written nothing or, when flt.partial, the first document.  st holds *)
(* the store, the ids drawn, the counters, the calls made and the error.   *)
RECURSIVE IndexFrom(_, _, _, _)
IndexFrom(files, i, flt, st) ==
    IF i > Len(files) THEN st
    ELSE IF flt.file = i /\ flt.stage = "load"
    THEN [st EXCEPT !.calls = Append(@, [fn |-> "load_guideline", file |-> i, ids |-> <<>>, batch_size |-> 0]),
                    !.error = "FileNotFoundError"]
    ELSE
    LET pieces == ChunksOf(files[i], st.counter)
        ids == [j \in 1..Len(pieces) |-> pieces[j].chunk_id]
        loaded == [st EXCEPT
                    !.calls = Append(@, [fn |-> "load_guideline", file |-> i, ids |-> <<>>, batch_size |-> 0]),
                    !.counter = @ + Len(pieces)]
        embedded == [loaded EXCEPT
                      !.calls = Append(@, [fn |-> "embed_batch", file |-> i, ids |-> ids,
                                         batch_size |-> embed_batch_size])]
        upserting == [embedded EXCEPT
                       !.calls = Append(@, [fn |-> "index_batch", file |-> i, ids |-> ids,
                                          batch_size |-> st.batch_size])]
        documents == Documents(pieces)
    IN  IF pieces = <<>> THEN IndexFrom(files, AfterEmpty(files, i), flt, loaded)
        ELSE IF flt.file = i /\ flt.stage = "embed"
        THEN [embedded EXCEPT !.error = "NIMServiceError"]
        ELSE IF flt.file = i /\ flt.stage = "upsert"
        THEN [upserting EXCEPT
                !.error = "VectorStoreError",
                !.store = IF flt.partial THEN Upsert(@, <<documents[1]>>) ELSE @]
        ELSE IndexFrom(files, i + 1, flt,
                [upserting EXCEPT
                    !.store = Upsert(@, documents),
                    !.stats = [guidelines_indexed |-> @.guidelines_indexed + 1,
                               chunks_indexed |-> @.chunks_indexed + Len(pieces)]])

index_all_guidelines(files, flt, stored, counter, size) ==
    IndexFrom(files, 1, flt,
        [store |-> stored, counter |-> counter,
         stats |-> NoStats, batch_size |-> size,
         calls |-> <<>>, error |-> ""])

(* VectorStore._format_hits on a stored document: the retriever reads the  *)
(* metadata with dict.get, an absent key giving the empty value.           *)
StoredHit(doc, score) ==
    LET m == doc.metadata
        Get(key, default) == IF key \in DOMAIN m THEN m[key] ELSE default
    IN  [id |-> doc.id, text |-> doc.text, score |-> score,
         metadata |->
            [source |-> Get("source", ""),
             category |-> Get("category", <<>>),
             size_min_mm |-> IF "size_min_mm" \in DOMAIN m THEN Num(m["size_min_mm"]) ELSE None,
             size_max_mm |-> IF "size_max_mm" \in DOMAIN m THEN Num(m["size_max_mm"]) ELSE None,
             risk_level |-> Get("risk_level", <<>>),
             recommendation |-> Get("recommendation", <<>>),
             citation |-> Get("citation", "")]]

(* The kNN ranking of the stored documents that starts at the r-th: which  *)
(* document is nearest to the query is up to the embeddings.               *)
StoredRanking(stored, r) ==
    [i \in 1..Len(stored) |->
        StoredHit(stored[((r + i - 2) % Len(stored)) + 1], ScoreDen - (i - 1) * Tenth)]

---------------------------------------------------------------------------
(* Inputs.                                                                 *)

(* A guideline of Len(g) sentences without size tokens: g gives each      *)
(* sentence's words and what precedes it; the heading before sentence i is *)
(* titled "Hi".                                                            *)
SentenceShapes == [n : WordSamples, brk : Breaks]

PlainContent(g) ==
    [i \in DOMAIN g |->
        [n |-> g[i].n, brk |-> g[i].brk, toks |-> <<>>,
         title |-> IF g[i].brk = "head" THEN <<"H" \o ToString(i)>> ELSE <<>>]]

(* A guideline of one section whose title and body hold size tokens.       *)
SizeContent(h, t) == <<[n |-> 60, brk |-> "head", toks |-> t, title |-> h]>>

SizeTitles == {<<"w">>, <<">=">>}

(* Guidelines whose sentences and headings may hold a form feed.           *)
MaxBlocks == 3

LineShapes == [n : {60, 450}, brk : Breaks, feed : BOOLEAN]

LineContent(g, feed_in_titles) ==
    [i \in DOMAIN g |->
        [n |-> g[i].n, brk |-> g[i].brk,
         toks |-> IF g[i].feed THEN <<"w", "FF", "w">> ELSE <<>>,
         title |-> IF g[i].brk # "head" THEN <<>>
                   ELSE IF feed_in_titles THEN <<"H" \o ToString(i), "FF", "w">>
                   ELSE <<"H" \o ToString(i)>>]]

(* Texts made of risk phrases in either case and of other words.           *)
MaxPhrases == 3

RiskPhrases == {"w", "High risk", "high risk", "low risk", "Intermediate risk"}

(* Guidelines with headings that have nothing below them: such a heading  *)
(* is followed by another heading or by the end of the content.            *)
HeadingShapes == {sh \in [n : {0, 60, 150}, brk : Breaks] : sh.n = 0 => sh.brk = "head"}

SourceName == "Fleischner Society Pulmonary Nodule Recommendations (2017)"

(* The indexed documents: metadata as index_all_guidelines stores it; an   *)
(* absent optional field is <<>>.                                          *)
DocIds == {"A", "B", "C"}

S_high == <<"h", "i", "g", "h">>
S_High == <<"H", "i", "g", "h">>
S_HIGH == <<"H", "I", "G", "H">>
S_low == <<"l", "o", "w">>
S_intermediate == <<"i", "n", "t", "e", "r", "m", "e", "d", "i", "a", "t", "e">>
S_other == <<"n", "a">>

(* The documents of the index.  A and B are the two hits of the test's     *)
(* store (B's source in capitals), C is a liver chunk without size or risk,*)
(* D a document without source that matches the same filters as A.         *)
StoredIds == DocIds \cup {"D"}

Corpus ==
    [id \in StoredIds |->
        CASE id = "A" ->
               [source |-> Fleischner, category |-> "Pulmonary nodules",
                size_min_mm |-> Num(6), size_max_mm |-> Num(8), risk_level |-> S_high,
                recommendation |-> <<"CT chest in 3 months.">>,
                citation |-> "Fleischner 2017"]
          [] id = "B" ->
               [source |-> FLEISCHNER, category |-> "Pulmonary nodules",
                size_min_mm |-> Num(1), size_max_mm |-> Num(3), risk_level |-> S_low,
                recommendation |-> <<>>, citation |-> ""]
          [] id = "C" ->
               [source |-> LiverLesions, category |-> "",
                size_min_mm |-> None, size_max_mm |-> None, risk_level |-> <<>>,
                recommendation |-> <<>>, citation |-> "ACR 2017"]
          [] id = "D" ->
               [source |-> "", category |-> "",
                size_min_mm |-> Num(5), size_max_mm |-> Num(8), risk_level |-> S_high,
                recommendation |-> <<>>, citation |-> ""] ]

(* The stored texts, as lines: A one line, B a title, a blank line and two *)
(* body lines, C a title and trailing blank lines, D one line.             *)
CorpusText ==
    [id \in StoredIds |->
        CASE id = "A" -> <<"6mm solid nodule in high risk patient. Recommend 3 month CT.">>
          [] id = "B" -> <<"Small nodules", "", "2mm low risk nodule", "annual follow-up.">>
          [] id = "C" -> <<"Liver lesions", "", "">>
          [] id = "D" -> <<"Unsourced note on nodules">> ]

(* Raw scores of the two searches: similarities 0.5 and 1.0, lexical       *)
(* (BM25) scores 1.0 and 5.0.                                              *)
SemanticScores == {ScoreDen \div 2, ScoreDen}
KeywordScores == {ScoreDen, 5 * ScoreDen}

(* Rankings the index can answer with: no document twice, hits in          *)
(* descending order of raw score.                                          *)
IsRanking(r) ==
    /\ \A i, j \in 1..Len(r) : i # j => r[i].id # r[j].id
    /\ \A i \in 1..(Len(r) - 1) : r[i].score >= r[i + 1].score

Hits(r) == [i \in 1..Len(r) |-> [id |-> r[i].id, text |-> CorpusText[r[i].id],
                                  score |-> r[i].score, metadata |-> Corpus[r[i].id]]]

(* Rankings for retrieve: any order of any documents, the raw scores       *)
(* falling by one tenth (kNN) or by one (BM25) from hit to hit.            *)
IsOrder(r) == \A i, j \in 1..Len(r) : i # j => r[i] # r[j]

SemanticHits(r) ==
    Hits([i \in 1..Len(r) |-> [id |-> r[i], score |-> ScoreDen - (i - 1) * Tenth]])

KeywordHits(r) ==
    Hits([i \in 1..Len(r) |-> [id |-> r[i], score |-> (6 - i) * ScoreDen]])

(* Candidates and findings for rerank_results: the i-th candidate has id   *)
(* "di"; incoming scores 0.5, 1.0 and 5.0.                                 *)
BaseScores == {ScoreDen \div 2, ScoreDen, 5 * ScoreDen}

SizeBounds ==
    { [min |-> Num(5), max |-> Num(8)], [min |-> Num(1), max |-> Num(3)],
      [min |-> Num(30), max |-> Num(40)], [min |-> Num(5), max |-> None] }

CandidateShapes == [score : BaseScores, size : SizeBounds, risk : {<<>>, S_High, S_low}]

Candidates(g) ==
    [i \in DOMAIN g |->
        [id |-> "d" \o ToString(i), text |-> "text " \o ToString(i),
         score |-> g[i].score,
         metadata |-> [source |-> Fleischner,
                       size_min_mm |-> g[i].size.min,
                       size_max_mm |-> g[i].size.max,
                       risk_level |-> g[i].risk]]]

RerankFindings ==
    { [type |-> <<>>, location |-> <<>>, size_mm |-> Num(6), risk_level |-> S_HIGH],
      [type |-> <<>>, location |-> <<>>, size_mm |-> Num(6), risk_level |-> <<>>],
      [type |-> <<>>, location |-> <<>>, size_mm |-> None, risk_level |-> S_HIGH],
      [type |-> <<>>, location |-> <<>>, size_mm |-> Text, risk_level |-> S_other] }

(* Findings for retrieve.                                                  *)
S_pulmonary_nodule ==
    <<"p", "u", "l", "m", "o", "n", "a", "r", "y", "_", "n", "o", "d", "u", "l", "e">>
S_Liver_lesion == <<"L", "i", "v", "e", "r", " ", "l", "e", "s", "i", "o", "n">>
S_RUL == <<"R", "U", "L">>

RetrieveFindings ==
    { f \in [type : {<<>>, S_pulmonary_nodule, S_Liver_lesion},
             location : {<<>>, S_RUL},
             size_mm : {None, Text, Num(6)},
             risk_level : {<<>>, S_other, S_HIGH}] :
        f.location = <<>> => f.type # S_pulmonary_nodule }


---------------------------------------------------------------------------
(* Findings for build_query_text: every key present or absent, the        *)
(* characteristics a list, a string or absent, the size absent, not a      *)
(* number, 6 or 12.                                                        *)
S_Pulmonary_nodule == <<"P", "u", "l", "m", "o", "n", "a", "r", "y", " ", "n", "o", "d", "u", "l", "e">>
S_ground_glass == <<"g", "r", "o", "u", "n", "d", "-", "g", "l", "a", "s", "s">>
S_part_solid == <<"p", "a", "r", "t", "-", "s", "o", "l", "i", "d">>
S_hilum == <<"h", "i", "l", "u", "m">>
S_HIGH_risk_smoker ==
    <<"H", "I", "G", "H", " ", "r", "i", "s", "k", " ", "s", "m", "o", "k", "e", "r">>

NoCharacteristics == [kind |-> "none", items |-> <<>>, value |-> <<>>]
ListOf(items) == [kind |-> "list", items |-> items, value |-> <<>>]
StringOf(value) == [kind |-> "str", items |-> <<>>, value |-> value]

QueryFindings ==
    [type : {<<>>, S_Pulmonary_nodule},
     finding_type : {<<>>, S_Liver_lesion},
     characteristics : {NoCharacteristics, ListOf(<<>>), ListOf(<<S_ground_glass, S_part_solid>>),
                        ListOf(<<<<>>, S_part_solid>>), StringOf(S_ground_glass),
                        StringOf(<<>>)},
     size_mm : {None, Text, Num(6), Num(12)},
     location : {<<>>, S_RUL},
     anatomical_location : {<<>>, S_hilum},
     risk_level : {<<>>, S_other, S_low, S_HIGH_risk_smoker}]

(* Guideline files.  A header is the "# ..." line and the reference line   *)
(* of a file (both absent, or the name of a pulmonary guideline with its   *)
(* reference, or another title without reference); when present they are   *)
(* the text before the first section.  A body is the sections that follow: *)
(* none; "Subsolid Nodules" alone (150 words, ">= 6 mm", "High risk");     *)
(* followed by a short section on low risk; preceded by a long section     *)
(* with "<= 6 mm"; preceded by a short section with "1 - 3 mm".            *)
Headers ==
    { [heading |-> "", reference |-> ""],
      [heading |-> Fleischner, reference |-> "MacMahon H, et al. Radiology 2017"],
      [heading |-> "Test Guideline", reference |-> ""] }

Subsolid ==
    [n |-> 150, brk |-> "head", toks |-> <<">=", "6", "mm", "w", "High risk">>,
     title |-> <<"Subsolid", "Nodules">>]

Bodies5 ==
    { <<>>,
      <<Subsolid>>,
      <<Subsolid,
        [n |-> 60, brk |-> "head", toks |-> <<"low risk", "w", "CT">>,
         title |-> <<"Solid", "Nodules">>]>>,
      <<[n |-> 450, brk |-> "head", toks |-> <<"<=", "6", "mm", "PET/CT">>,
         title |-> <<"Screening">>],
        Subsolid>>,
      <<[n |-> 60, brk |-> "head", toks |-> <<"1", "-", "3", "mm">>,
         title |-> <<"Tiny", "Nodules">>],
        Subsolid>> }

FileNames == <<"a.md", "b.md", "c.md", "d.md">>

GuidelineFile(name, header, body) ==
    [name |-> name, heading |-> header.heading, reference |-> header.reference,
     content |-> (IF header.heading # ""
                  THEN <<[n |-> 12, brk |-> "para", toks |-> <<>>, title |-> <<>>]>>
                  ELSE <<>>) \o body]

(* The files considered: every body under the Fleischner title, the bare   *)
(* Subsolid section under each of the other titles, and the empty file.    *)
FileShapes ==
    {hb \in Headers \X Bodies5 :
        \/ hb[1].heading = Fleischner
        \/ hb[2] = <<Subsolid>>
        \/ hb[1].heading = "" /\ hb[2] = <<>>}

MaxFiles == 2

(* The calls that can fail: loading, embedding or upserting the i-th file. *)
Faults(n) ==
    {NoFault}
    \cup [file : 1..n, stage : {"load", "embed"}, partial : {FALSE}]
    \cup [file : 1..n, stage : {"upsert"}, partial : BOOLEAN]

(* The finding of the end-to-end scenario.                                 *)
SubsolidFinding ==
    [type |-> S_pulmonary_nodule, location |-> S_RUL, size_mm |-> Num(6),
     risk_level |-> S_high]

(* States of the parts an operation does not touch.                       *)
NoChunking == content = <<>> /\ chunks = <<>>
NoIndex == semantic_results = <<>> /\ keyword_results = <<>>
NoCall == top_k = 0 /\ sorted_hits = <<>> /\ calls = <<>>
NoFinding == [type |-> <<>>, location |-> <<>>, size_mm |-> None, risk_level |-> <<>>]
NoRerank == results = <<>> /\ finding = NoFinding /\ reranked = <<>>
NoRetrieve == use_filters = TRUE /\ error = "" /\ retrieved = <<>>
NoQuery == query_text = <<>>
NoRetry ==
    /\ operation = "" /\ backend_calls = <<>> /\ call_index = 0 /\ attempt = 0
    /\ last_error = "" /\ attempts = <<>> /\ responses = <<>>

NoIngest ==
    /\ directory = <<>> /\ store = <<>> /\ uuid_counter = 0
    /\ stats = NoStats /\ fault = NoFault /\ batch_size = 0

(* Chunking: the content is drawn, chunk_guideline is applied to it.       *)
ChunkGuideline ==
    /\ op = "init"
    /\ op' = "chunk_guideline"
    /\ chunks' = chunk_guideline(content, SourceName)
    /\ UNCHANGED <<content, indexVars, hybridVars, rerankVars, retrieveVars,
                 queryVars, ingestVars,
                 retryVars>>

InitChunking ==
    /\ op = "init"
    /\ \E k \in 0..MaxSentences :
          \E g \in [1..k -> SentenceShapes] :
             /\ k > 0 => g[1].brk # "sent"
             /\ content = PlainContent(g)
    /\ chunks = <<>>
    /\ NoIndex /\ NoCall /\ NoRerank /\ NoRetrieve /\ NoQuery /\ NoIngest
    /\ NoRetry

NextChunking == ChunkGuideline

SpecChunking == InitChunking /\ [][NextChunking]_vars

InitLines ==
    /\ op = "init"
    /\ \E k \in 0..MaxBlocks :
          \E g \in [1..k -> LineShapes], feed_in_titles \in BOOLEAN :
             /\ k > 0 => g[1].brk # "sent"
             /\ content = LineContent(g, feed_in_titles)
    /\ chunks = <<>>
    /\ NoIndex /\ NoCall /\ NoRerank /\ NoRetrieve /\ NoQuery /\ NoIngest
    /\ NoRetry

SpecLines == InitLines /\ [][NextChunking]_vars

InitRisk ==
    /\ op = "init"
    /\ \E k \in 1..MaxPhrases :
          \E t \in [1..k -> RiskPhrases], h \in {<<"w">>, <<"low risk">>} :
             content = SizeContent(h, t)
    /\ chunks = <<>>
    /\ NoIndex /\ NoCall /\ NoRerank /\ NoRetrieve /\ NoQuery /\ NoIngest
    /\ NoRetry

SpecRisk == InitRisk /\ [][NextChunking]_vars

InitHeadings ==
    /\ op = "init"
    /\ \E k \in 0..MaxBlocks :
          \E g \in [1..k -> HeadingShapes] :
             /\ k > 0 => g[1].brk # "sent"
             /\ \A i \in 1..(k - 1) : g[i].n = 0 => g[i + 1].brk = "head"
             /\ content = PlainContent(g)
    /\ chunks = <<>>
    /\ NoIndex /\ NoCall /\ NoRerank /\ NoRetrieve /\ NoQuery /\ NoIngest
    /\ NoRetry

SpecHeadings == InitHeadings /\ [][NextChunking]_vars

InitSizes ==
    /\ op = "init"
    /\ \E k \in 1..MaxToks :
          \E t \in [1..k -> Tokens], h \in SizeTitles :
             content = SizeContent(h, t)
    /\ chunks = <<>>
    /\ NoIndex /\ NoCall /\ NoRerank /\ NoRetrieve /\ NoQuery /\ NoIngest
    /\ NoRetry

SpecSizes == InitSizes /\ [][NextChunking]_vars

(* Hybrid search: the index's two rankings are drawn, hybrid_search is     *)
(* called with some top_k.                                                 *)
HybridSearch ==
    /\ op = "init"
    /\ \E k \in 1..MaxTopK :
          /\ top_k' = k
          /\ sorted_hits' = hybrid_search(semantic_results, keyword_results, k)
          /\ calls' = HybridCalls(k)
    /\ op' = "hybrid_search"
    /\ UNCHANGED <<chunkVars, indexVars, rerankVars, retrieveVars,
                 queryVars, ingestVars,
                 retryVars>>

InitHybrid ==
    /\ op = "init"
    /\ \E ks \in 0..MaxHits, kk \in 0..MaxHits :
          \E rs \in [1..ks -> [id : DocIds, score : SemanticScores]],
             rk \in [1..kk -> [id : DocIds, score : KeywordScores]] :
             /\ IsRanking(rs) /\ IsRanking(rk)
             /\ semantic_results = Hits(rs)
             /\ keyword_results = Hits(rk)
    /\ NoChunking /\ NoCall /\ NoRerank /\ NoRetrieve /\ NoQuery /\ NoIngest
    /\ NoRetry

NextHybrid == HybridSearch

SpecHybrid == InitHybrid /\ [][NextHybrid]_vars

(* Reranking: candidates and a finding are drawn, rerank_results is        *)
(* applied to them.                                                        *)
RerankResults ==
    /\ op = "init"
    /\ op' = "rerank_results"
    /\ reranked' = rerank_results(results, finding)
    /\ results' = ResultsAfter(results, finding)
    /\ UNCHANGED <<chunkVars, indexVars, hybridVars, finding, retrieveVars,
                 queryVars, ingestVars,
                 retryVars>>

InitRerank ==
    /\ op = "init"
    /\ \E k \in 0..MaxResults :
          \E g \in [1..k -> CandidateShapes] : results = Candidates(g)
    /\ finding \in RerankFindings
    /\ reranked = <<>>
    /\ NoChunking /\ NoIndex /\ NoCall /\ NoRetrieve /\ NoQuery /\ NoIngest
    /\ NoRetry

NextRerank == RerankResults

SpecRerank == InitRerank /\ [][NextRerank]_vars

(* Retrieval: the index's rankings are drawn (up to MaxHits documents in   *)
(* the kNN ranking, at most one lexical hit); retrieve is called with a    *)
(* finding, a top_k (possibly not positive) and use_filters.               *)
LargeTopK == 6

TopKs == ((0 - 1)..MaxTopK) \cup {LargeTopK}

Retrieve ==
    /\ op = "init"
    /\ \E f \in RetrieveFindings, k \in TopKs, filtering \in BOOLEAN :
          LET out == retrieve(f, k, filtering, semantic_results, keyword_results)
          IN  /\ finding' = f
              /\ top_k' = k
              /\ use_filters' = filtering
              /\ error' = out.error
              /\ calls' = out.calls
              /\ retrieved' = out.chunks
    /\ op' = "retrieve"
    /\ UNCHANGED <<chunkVars, indexVars, sorted_hits, results, reranked,
                 queryVars, ingestVars,
                 retryVars>>

InitRetrieve ==
    /\ op = "init"
    /\ \E ks \in 0..MaxHits, kk \in 0..1 :
          \E rs \in [1..ks -> StoredIds], rk \in [1..kk -> DocIds] :
             /\ IsOrder(rs) /\ IsOrder(rk)
             /\ semantic_results = SemanticHits(rs)
             /\ keyword_results = KeywordHits(rk)
    /\ NoChunking /\ NoCall /\ NoRerank /\ NoRetrieve /\ NoQuery /\ NoIngest
    /\ NoRetry

NextRetrieve == Retrieve

SpecRetrieve == InitRetrieve /\ [][NextRetrieve]_vars

(* Query text: build_query_text is called with a finding.                 *)
BuildQueryText ==
    /\ op = "init"
    /\ \E f \in QueryFindings :
          /\ finding' = f
          /\ query_text' = build_query_text(f)
    /\ op' = "build_query_text"
    /\ UNCHANGED <<chunkVars, indexVars, hybridVars, results, reranked, retrieveVars,
                   ingestVars,
                   retryVars>>

InitQuery ==
    /\ op = "init"
    /\ NoChunking /\ NoIndex /\ NoCall /\ NoRerank /\ NoRetrieve /\ NoQuery /\ NoIngest
    /\ NoRetry

NextQuery == BuildQueryText

SpecQuery == InitQuery /\ [][NextQuery]_vars

(* The batch sizes index_all_guidelines is called with: one document per   *)
(* batch, or the default.                                                  *)
BatchSizes == {1, default_batch_size}

(* Indexing: a directory of guideline files is indexed into an empty       *)
(* store, possibly with a failing collaborator; after a run without        *)
(* failure the same directory is indexed again, or the store is queried    *)
(* with the finding of the end-to-end scenario.                            *)
RunIndexer(flt, size) ==
    \E out \in {index_all_guidelines(directory, flt, store, uuid_counter, size)} :
        /\ fault' = flt
        /\ batch_size' = size
        /\ store' = out.store
        /\ uuid_counter' = out.counter
        /\ stats' = out.stats
        /\ calls' = out.calls
        /\ error' = out.error
        /\ UNCHANGED <<directory, chunkVars, indexVars, top_k, sorted_hits, rerankVars,
                       use_filters, retrieved, queryVars,
                       retryVars>>

IndexAllGuidelines ==
    /\ op \in {"init", "index_all_guidelines"} /\ error = ""
    /\ \E flt \in (IF op = "init" THEN Faults(Len(directory)) ELSE {NoFault}),
          size \in BatchSizes :
          RunIndexer(flt, size)
    /\ op' = IF op = "init" THEN "index_all_guidelines" ELSE "index_again"

RetrieveIndexed ==
    /\ op = "index_all_guidelines" /\ error = ""
    /\ \E r \in 1..Len(store), k \in 1..MaxTopK :
          \E ranking \in {StoredRanking(store, r)} :
          \E out \in {retrieve(SubsolidFinding, k, TRUE, ranking, <<>>)} :
              /\ semantic_results' = ranking
              /\ finding' = SubsolidFinding
              /\ top_k' = k
              /\ error' = out.error
              /\ calls' = out.calls
              /\ retrieved' = out.chunks
    /\ op' = "retrieve"
    /\ UNCHANGED <<chunkVars, keyword_results, sorted_hits, results, reranked, use_filters,
                   queryVars, ingestVars,
                   retryVars>>

InitIndexing ==
    /\ op = "init"
    /\ \E n \in 0..MaxFiles :
          \E hb \in [1..n -> FileShapes] :
             directory = [i \in 1..n |-> GuidelineFile(FileNames[i], hb[i][1], hb[i][2])]
    /\ store = <<>> /\ uuid_counter = 0 /\ stats = NoStats /\ fault = NoFault
    /\ batch_size = 0
    /\ NoChunking /\ NoIndex /\ NoCall /\ NoRerank /\ NoRetrieve /\ NoQuery
    /\ NoRetry

NextIndexing == IndexAllGuidelines \/ RetrieveIndexed

SpecIndexing == InitIndexing /\ [][NextIndexing]_vars

---------------------------------------------------------------------------
(* VectorStore._execute_with_retry and the public operations that go       *)
(* through it.                                                             *)
RETRY_ATTEMPTS == 3

(* What the backend answers to one attempt: a response, or an exception.   *)
(* TransportError is an OpenSearchException and ConnectionError a          *)
(* TransportError; "ValueError" stands for an exception of any other kind. *)
BackendAnswers ==
    {"response", "OpenSearchException", "TransportError", "ConnectionError", "ValueError"}

(* The except clause that retries, were it to catch every exception.       *)
IsRetryableAny(answer) == answer # "response"

(* except (OpenSearchException, TransportError, OpenSearchConnectionError) *)
IsRetryable(answer) ==
    answer \in {"OpenSearchException", "TransportError", "ConnectionError"}

(* math.ceil(len(documents) / batch_size) *)
TotalBatches(n, size) == (n + size - 1) \div size

(* The backend calls of a public operation, in order, each made through    *)
(* _execute_with_retry: index_batch makes one per batch of its n documents.*)
Operations ==
    {"search", "hybrid_search", "index_batch", "index_document", "delete_index"}

BackendCalls(name, n, size) ==
    CASE name = "hybrid_search" -> <<"semantic_search", "keyword_search">>
      [] name = "index_batch" -> [i \in 1..TotalBatches(n, size) |-> "index_batch"]
      [] OTHER -> <<name>>

MaxDocuments == 2

(* The operation is inside _execute_with_retry for its call_index-th call. *)
Running ==
    /\ operation # "" /\ error = ""
    /\ call_index <= Len(backend_calls)

RetryFrame ==
    UNCHANGED <<chunkVars, indexVars, hybridVars, rerankVars, use_filters, retrieved,
                queryVars, ingestVars, operation, backend_calls>>

(* "return func()": the attempt is answered with a response, which         *)
(* _execute_with_retry returns; the operation goes on to its next call, a  *)
(* new invocation with attempt 1 and no last_error.                        *)
AttemptReturns ==
    /\ Running
    /\ attempts' = Append(attempts, [call |-> call_index, attempt |-> attempt,
                                     answer |-> "response"])
    /\ responses' = Append(responses, [call |-> call_index, attempt |-> attempt])
    /\ call_index' = call_index + 1
    /\ attempt' = 1 /\ last_error' = ""
    /\ error' = ""
    /\ op' = "_execute_with_retry"
    /\ RetryFrame

(* The first except clause: the error is kept, the loop sleeps and goes    *)
(* on; after the last pass last_error is set and VectorStoreError raised.  *)
AttemptFailsRetryable ==
    /\ Running
    /\ \E exc \in BackendAnswers \ {"response"} :
          /\ IsRetryable(exc)
          /\ attempts' = Append(attempts, [call |-> call_index, attempt |-> attempt,
                                           answer |-> exc])
          /\ last_error' = exc
    /\ IF attempt < RETRY_ATTEMPTS
       THEN attempt' = attempt + 1 /\ error' = ""
       ELSE attempt' = attempt
            /\ error' = IF last_error' # "" THEN "VectorStoreError" ELSE ""
    /\ op' = "_execute_with_retry"
    /\ UNCHANGED <<call_index, responses>>
    /\ RetryFrame

(* The second except clause: the error is kept and the loop left.          *)
AttemptFailsOther ==
    /\ Running
    /\ \E exc \in BackendAnswers \ {"response"} :
          /\ ~IsRetryable(exc)
          /\ attempts' = Append(attempts, [call |-> call_index, attempt |-> attempt,
                                           answer |-> exc])
          /\ last_error' = exc
    /\ error' = IF last_error' # "" THEN "VectorStoreError" ELSE ""
    /\ op' = "_execute_with_retry"
    /\ UNCHANGED <<call_index, attempt, responses>>
    /\ RetryFrame

(* A public operation has been called and is about to make its first       *)
(* backend call; index_batch was given n documents and a batch size.       *)
InitRetry ==
    /\ op = "init"
    /\ operation \in Operations
    /\ \E n \in 0..MaxDocuments, size \in BatchSizes :
          backend_calls = BackendCalls(operation, n, size)
    /\ call_index = 1 /\ attempt = 1 /\ last_error = ""
    /\ attempts = <<>> /\ responses = <<>>
    /\ NoChunking /\ NoIndex /\ NoCall /\ NoRerank /\ NoRetrieve /\ NoQuery /\ NoIngest

NextRetry == AttemptReturns \/ AttemptFailsRetryable \/ AttemptFailsOther

SpecRetry == InitRetry /\ [][NextRetry]_vars

---------------------------------------------------------------------------
(* Claims about chunking.                                                  *)

Bodies == {chunks[i].recommendation : i \in 1..Len(chunks)}

HasLongSentence(body) ==
    \E i \in 1..Len(Sentences(body)) : Sentences(body)[i].n > MAX_WORDS

Merged(chunk) == \E i \in 1..Len(chunk.category) : chunk.category[i] = "|"

\* C1: every chunk chunk_guideline returns has a body of at most MAX_WORDS
\* words, unless the body holds a single sentence of more than MAX_WORDS.
C1_BodyAtMostMaxWords ==
    op = "chunk_guideline" =>
        \A body \in Bodies : _word_count(body) <= MAX_WORDS \/ HasLongSentence(body)

\* C2: every chunk chunk_guideline returns, except possibly the last of the
\* list, has a body of at least MIN_WORDS words.
C2_AllButLastAtLeastMinWords ==
    op = "chunk_guideline" =>
        \A i \in 1..(Len(chunks) - 1) : _word_count(chunks[i].recommendation) >= MIN_WORDS

\* C2 witness: sections under MIN_WORDS were folded and several chunks returned.
C2_Witness ==
    /\ op = "chunk_guideline"
    /\ Len(chunks) >= 2
    /\ \E i \in 1..Len(content) : content[i].n < MIN_WORDS
    /\ \E i \in 1..(Len(chunks) - 1) : Merged(chunks[i])

\* C3: whenever a chunk has both size_min_mm and size_max_mm set,
\* size_min_mm <= size_max_mm.
C3_SizeMinAtMostMax ==
    op = "chunk_guideline" =>
        \A i \in 1..Len(chunks) :
            (chunks[i].size_min_mm # <<>> /\ chunks[i].size_max_mm # <<>>)
                => chunks[i].size_min_mm[1] <= chunks[i].size_max_mm[1]

---------------------------------------------------------------------------
(* Claims about hybrid_search.                                             *)

Ids(hits) == [i \in 1..Len(hits) |-> hits[i].id]

(* 1-indexed rank of a document in the list a sub-search returned, 0 when  *)
(* it is not in it.                                                        *)
SemanticRank(id) == IndexOfId(Take(semantic_results, 3 * top_k), id)
KeywordRank(id) == IndexOfId(Take(keyword_results, 3 * top_k), id)

(* 0.7/(60 + r) + 0.3/(60 + r'), in units of 1/ScoreDen.                   *)
ReciprocalRankSum(id) ==
    (IF SemanticRank(id) > 0 THEN (7 * ScoreDen) \div (10 * (60 + SemanticRank(id))) ELSE 0)
    + (IF KeywordRank(id) > 0 THEN (3 * ScoreDen) \div (10 * (60 + KeywordRank(id))) ELSE 0)

FusedScore(id) == sorted_hits[IndexOfId(sorted_hits, id)].score

(* The raw score hybrid_search starts a document's entry from.             *)
CarriedRawScore(id) ==
    IF SemanticRank(id) > 0 THEN semantic_results[SemanticRank(id)].score
    ELSE keyword_results[KeywordRank(id)].score

\* C4: the fused score of every returned document is exactly the sum of its
\* reciprocal-rank contributions, independent of the raw scores.
C4_FusedScoreIsReciprocalRankSum ==
    op = "hybrid_search" =>
        \A i \in 1..Len(sorted_hits) :
            sorted_hits[i].score = ReciprocalRankSum(sorted_hits[i].id)

SwappedRanks ==
    /\ op = "hybrid_search"
    /\ top_k >= 2
    /\ Ids(semantic_results) = <<"A", "B">>
    /\ Ids(keyword_results) = <<"B", "A">>

\* C5 as stated: with semantic ranks {A:1, B:2} and lexical ranks {A:2, B:1},
\* A and B get the same fused score, 1/61.
C5_SwappedRanksFuseToOne61st ==
    SwappedRanks =>
        /\ FusedScore("A") = FusedScore("B")
        /\ FusedScore("A") = ScoreDen \div 61

\* C5 as amended: with those ranks hybrid_search adds 0.7/61 + 0.3/62 to the
\* raw semantic score of A and 0.7/62 + 0.3/61 to that of B; A's addition is
\* the larger and neither is 1/61.
C5_SwappedRanksContributions ==
    SwappedRanks =>
        /\ FusedScore("A") - CarriedRawScore("A")
              = (7 * ScoreDen) \div (10 * 61) + (3 * ScoreDen) \div (10 * 62)
        /\ FusedScore("B") - CarriedRawScore("B")
              = (7 * ScoreDen) \div (10 * 62) + (3 * ScoreDen) \div (10 * 61)
        /\ FusedScore("A") - CarriedRawScore("A") > FusedScore("B") - CarriedRawScore("B")
        /\ FusedScore("A") - CarriedRawScore("A") < ScoreDen \div 61
        /\ FusedScore("B") - CarriedRawScore("B") < ScoreDen \div 61

\* C5 witness: the two rankings are A, B and B, A and both are returned.
C5_Witness ==
    /\ SwappedRanks
    /\ Ids(sorted_hits) \in {<<"A", "B">>, <<"B", "A">>}

\* C6: a document ranked 1 in both lists is first in the output and has a
\* strictly higher fused score than every other returned document.
C6_FirstInBothOutscoresAll ==
    op = "hybrid_search" =>
        \A id \in DocIds :
            (SemanticRank(id) = 1 /\ KeywordRank(id) = 1) =>
                /\ sorted_hits[1].id = id
                /\ \A i \in 2..Len(sorted_hits) : sorted_hits[i].score < sorted_hits[1].score

---------------------------------------------------------------------------
(* Claims about rerank_results.                                            *)

Position(docs, id) == IndexOfId(docs, id)
RerankedScore(id) == reranked[Position(reranked, id)].score

BothBounds(doc) ==
    doc.metadata.size_min_mm.t = "num" /\ doc.metadata.size_max_mm.t = "num"

SizeWithin(doc) ==
    /\ finding.size_mm.t = "num" /\ BothBounds(doc)
    /\ doc.metadata.size_min_mm.v <= finding.size_mm.v
    /\ finding.size_mm.v <= doc.metadata.size_max_mm.v

SizeOutside(doc) ==
    /\ finding.size_mm.t = "num" /\ BothBounds(doc)
    /\ ~ (/\ doc.metadata.size_min_mm.v <= finding.size_mm.v
          /\ finding.size_mm.v <= doc.metadata.size_max_mm.v)

(* Distance of the finding's size to the nearer bound.                     *)
NearerBound(doc) ==
    LET lo == Abs(finding.size_mm.v - doc.metadata.size_min_mm.v)
        hi == Abs(finding.size_mm.v - doc.metadata.size_max_mm.v)
    IN  IF lo <= hi THEN lo ELSE hi

RiskMatches(doc) ==
    /\ _normalize_risk(finding.risk_level) # <<>>
    /\ Lower(doc.metadata.risk_level) = _normalize_risk(finding.risk_level)

(* min(d/10, 1.5), in units of 1/ScoreDen.                                 *)
Penalty(doc) ==
    IF NearerBound(doc) <= 15 THEN NearerBound(doc) * Tenth ELSE 15 * Tenth

ClaimedScore(doc) ==
    doc.score
    + (IF SizeWithin(doc) THEN 2 * ScoreDen ELSE 0)
    - (IF SizeOutside(doc) THEN Penalty(doc) ELSE 0)
    + (IF RiskMatches(doc) THEN ScoreDen \div 2 ELSE 0)

ScoresAsClaimed ==
    \A i \in 1..Len(results) : RerankedScore(results[i].id) = ClaimedScore(results[i])

SizeSixNoRisk ==
    /\ op = "rerank_results"
    /\ finding.size_mm = Num(6)
    /\ _normalize_risk(finding.risk_level) = <<>>

HasBounds(doc, lo, hi) ==
    doc.metadata.size_min_mm = Num(lo) /\ doc.metadata.size_max_mm = Num(hi)

\* C8 as stated: with size_mm = 6 and no risk level, a chunk with bounds 5..8
\* scores exactly base + 2.0 and a chunk with bounds 1..3 exactly base - 0.2.
C8_SizeSixScoresMinusTwoTenths ==
    SizeSixNoRisk =>
        \A i \in 1..Len(results) :
            /\ HasBounds(results[i], 5, 8) =>
                  RerankedScore(results[i].id) = results[i].score + 2 * ScoreDen
            /\ HasBounds(results[i], 1, 3) =>
                  RerankedScore(results[i].id) = results[i].score - (2 * ScoreDen) \div 10

\* C8 as amended: with size_mm = 6 and no risk level, a chunk with bounds 5..8
\* scores exactly base + 2.0 and a chunk with bounds 1..3 exactly base - 0.3.
C8_SizeSixScoresMinusThreeTenths ==
    SizeSixNoRisk =>
        \A i \in 1..Len(results) :
            /\ HasBounds(results[i], 5, 8) =>
                  RerankedScore(results[i].id) = results[i].score + 2 * ScoreDen
            /\ HasBounds(results[i], 1, 3) =>
                  RerankedScore(results[i].id) = results[i].score - (3 * ScoreDen) \div 10

\* C8 witness: both chunks are among the candidates of such a finding.
C8_Witness ==
    /\ SizeSixNoRisk
    /\ \E i, j \in 1..Len(results) :
          HasBounds(results[i], 5, 8) /\ HasBounds(results[j], 1, 3)

\* C9: rerank_results returns the candidates in descending order of adjusted
\* score, candidates of equal adjusted score in their input order.
C9_DescendingAndStable ==
    op = "rerank_results" =>
        /\ Len(reranked) = Len(results)
        /\ \A p, q \in 1..Len(reranked) :
              p < q =>
                 /\ reranked[p].score >= reranked[q].score
                 /\ reranked[p].score = reranked[q].score =>
                       Position(results, reranked[p].id) < Position(results, reranked[q].id)

\* C9 witness: the first candidate comes in with the lower score, the
\* adjustment makes the two scores equal, and the first is returned first.
C9_Witness ==
    /\ op = "rerank_results"
    /\ Len(results) = 2
    /\ results[1].score < results[2].score
    /\ reranked[1].score = reranked[2].score
    /\ reranked[1].id = results[1].id

---------------------------------------------------------------------------
(* Claims about retrieve.                                                  *)

\* C10: retrieve called with top_k <= 0 raises ValueError, whatever the
\* finding, and has called neither the embedding client nor the vector store.
C10_NonPositiveTopKRaisesFirst ==
    (op = "retrieve" /\ top_k <= 0) =>
        /\ error = "ValueError"
        /\ calls = <<>>
        /\ retrieved = <<>>

\* C10 witness: retrieve was called with top_k = 0 for a sized pulmonary
\* finding on an index that has matching documents.
C10_Witness ==
    /\ op = "retrieve"
    /\ top_k = 0
    /\ finding.type = S_pulmonary_nodule /\ finding.size_mm = Num(6)
    /\ Len(semantic_results) >= 2

(* The queries retrieve put to the vector store.                           *)
StoreQueries == SelectSeq(calls, LAMBDA c : c.fn \in {"search", "hybrid_search"})

RiskTokens == {S_high, S_intermediate, S_low}

FindingHasSize == finding.size_mm.t = "num"
FindingHasRisk == \E token \in RiskTokens : Contains(Lower(finding.risk_level), token)

\* C11: a retrieve that succeeds puts exactly one query to the vector store,
\* for max(3 * top_k, 15) candidates; it is the filtered search exactly when
\* use_filters is set and the finding gives a size or a risk filter, and
\* hybrid_search otherwise.
C11_OneStoreQuery ==
    (op = "retrieve" /\ error = "") =>
        /\ Len(StoreQueries) = 1
        /\ StoreQueries[1].top_k = (IF 3 * top_k > 15 THEN 3 * top_k ELSE 15)
        /\ StoreQueries[1].fn = "search"
              <=> (use_filters /\ (FindingHasSize \/ FindingHasRisk))

\* C11 witness: with use_filters set, a finding that yields only a source
\* allow-list is answered by hybrid_search, asked for 18 candidates.
C11_Witness ==
    /\ op = "retrieve" /\ error = ""
    /\ use_filters /\ finding.type = S_pulmonary_nodule
    /\ ~FindingHasSize /\ ~FindingHasRisk
    /\ top_k = LargeTopK
    /\ StoreQueries = <<[fn |-> "hybrid_search", top_k |-> 18]>>

\* C12: the filters retrieve passes to search hold finding_size (the size)
\* exactly when the size is numeric, patient_risk (high, intermediate or
\* low) exactly when the risk level normalizes, and never the allow-list.
C12_FiltersPassedToSearch ==
    op = "retrieve" =>
        \A i \in 1..Len(calls) :
            calls[i].fn = "search" =>
                /\ calls[i].filters.finding_size =
                      (IF FindingHasSize THEN <<finding.size_mm.v>> ELSE <<>>)
                /\ IF FindingHasRisk
                   THEN /\ calls[i].filters.patient_risk \in RiskTokens
                        /\ Contains(Lower(finding.risk_level),
                                    calls[i].filters.patient_risk)
                   ELSE calls[i].filters.patient_risk = <<>>
                /\ calls[i].filters.sources = <<>>

\* C12 witness: a finding with a type that derives an allow-list, size 6 and
\* risk "HIGH" was searched with finding_size 6 and patient_risk "high".
C12_Witness ==
    /\ op = "retrieve"
    /\ finding.type = S_pulmonary_nodule /\ finding.risk_level = S_HIGH
    /\ Len(calls) = 2
    /\ calls[2].fn = "search"
    /\ calls[2].filters = [finding_size |-> <<6>>, patient_risk |-> S_high,
                           sources |-> <<>>]

(* The allow-list the claim derives from the finding's type and location,  *)
(* in lower case; {} when no keyword occurs or use_filters is off.         *)
FindingWords ==
    Lower(finding.type) \o <<" ">> \o Lower(finding.location)

PulmonaryFinding ==
    \E kw \in {<<"l", "u", "n", "g">>, <<"p", "u", "l", "m", "o", "n">>,
               <<"n", "o", "d", "u", "l", "e">>} : Contains(FindingWords, kw)

LiverFinding ==
    \E kw \in {<<"l", "i", "v", "e", "r">>, <<"h", "e", "p", "a", "t", "i", "c">>} :
        Contains(FindingWords, kw)

AllowList ==
    IF ~use_filters THEN {}
    ELSE (IF PulmonaryFinding
          THEN {"fleischner society pulmonary nodule recommendations (2017)",
                "acr lung-rads v2022 (lung ct screening reporting & data system)"}
          ELSE {})
         \cup
         (IF LiverFinding
          THEN {"acr incidental findings committee - management of incidental liver lesions on ct (2017)"}
          ELSE {})

LowerSource ==
    [id \in StoredIds |->
        CASE id \in {"A", "B"} -> "fleischner society pulmonary nodule recommendations (2017)"
          [] id = "C" ->
               "acr incidental findings committee - management of incidental liver lesions on ct (2017)"
          [] id = "D" -> ""]

(* The documents the store query answers with (it asks for at least 15,    *)
(* more than the index holds).                                             *)
Answered ==
    IF StoreQueries[1].fn = "search"
    THEN {semantic_results[i].id : i \in
            {j \in 1..Len(semantic_results) :
                /\ FindingHasSize =>
                      /\ semantic_results[j].metadata.size_min_mm.t = "num"
                      /\ semantic_results[j].metadata.size_max_mm.t = "num"
                      /\ semantic_results[j].metadata.size_min_mm.v <= finding.size_mm.v
                      /\ semantic_results[j].metadata.size_max_mm.v >= finding.size_mm.v
                /\ FindingHasRisk =>
                      semantic_results[j].metadata.risk_level =
                          StoreQueries[1].filters.patient_risk}}
    ELSE {semantic_results[i].id : i \in 1..Len(semantic_results)}
         \cup {keyword_results[i].id : i \in 1..Len(keyword_results)}

Eligible == {id \in Answered : AllowList = {} \/ LowerSource[id] \in AllowList}

RetrievedIds == {retrieved[i].chunk_id : i \in 1..Len(retrieved)}

\* C13: with an allow-list derived from the finding, every chunk retrieve
\* returns comes from a document whose source is, in lower case, on the list
\* (a document without source never is); without one, no answered document
\* is held back for its source: the top_k best of the eligible are returned.
C13_SourceAllowList ==
    (op = "retrieve" /\ error = "") =>
        /\ RetrievedIds \subseteq Eligible
        /\ Len(retrieved) = Cardinality(RetrievedIds)
        /\ Len(retrieved) = (IF top_k < Cardinality(Eligible) THEN top_k
                             ELSE Cardinality(Eligible))

\* C13 witness: for a pulmonary finding the store answered with B (source in
\* capitals) and D (no source); B is returned and D is not.
C13_Witness ==
    /\ op = "retrieve" /\ error = ""
    /\ PulmonaryFinding /\ use_filters
    /\ {"B", "D"} \subseteq Answered
    /\ "B" \in RetrievedIds
    /\ "D" \notin RetrievedIds
    /\ top_k = LargeTopK

\* C14 as stated: each returned chunk has the document's id, its
\* recommendation is metadata.recommendation when present and else the text
\* without its first line, its citation is the metadata's or empty.
C14_ChunkFromDocument ==
    op = "retrieve" =>
        \A i \in 1..Len(retrieved) :
            /\ retrieved[i].chunk_id \in StoredIds
            /\ retrieved[i].recommendation =
                  (IF Corpus[retrieved[i].chunk_id].recommendation # <<>>
                   THEN Corpus[retrieved[i].chunk_id].recommendation
                   ELSE Strip(Tail(CorpusText[retrieved[i].chunk_id])))
            /\ retrieved[i].citation = Corpus[retrieved[i].chunk_id].citation

\* C14 as amended: the same, except that a text of a single line is taken
\* whole as the recommendation instead of losing its only line.
C14_ChunkFromDocumentOneLineKept ==
    op = "retrieve" =>
        \A i \in 1..Len(retrieved) :
            /\ retrieved[i].chunk_id \in StoredIds
            /\ retrieved[i].text = CorpusText[retrieved[i].chunk_id]
            /\ retrieved[i].recommendation =
                  (IF Corpus[retrieved[i].chunk_id].recommendation # <<>>
                   THEN Corpus[retrieved[i].chunk_id].recommendation
                   ELSE IF Len(CorpusText[retrieved[i].chunk_id]) = 1
                   THEN CorpusText[retrieved[i].chunk_id]
                   ELSE Strip(Tail(CorpusText[retrieved[i].chunk_id])))
            /\ retrieved[i].citation = Corpus[retrieved[i].chunk_id].citation

\* C14 witness: the chunks returned include A (recommendation in the
\* metadata), B (several lines of text) and D (a single line of text).
C14_Witness ==
    /\ op = "retrieve"
    /\ {"A", "B", "D"} \subseteq RetrievedIds
    /\ \E i \in 1..Len(retrieved) :
          /\ retrieved[i].chunk_id = "B"
          /\ retrieved[i].recommendation = <<"2mm low risk nodule", "annual follow-up.">>
          /\ retrieved[i].citation = ""

---------------------------------------------------------------------------
(* Claims about build_query_text.                                          *)

(* The components the claim lists, in its order.                           *)
TypeComponent ==
    IF finding.type # <<>> THEN <<finding.type>>
    ELSE IF finding.finding_type # <<>> THEN <<finding.finding_type>>
    ELSE <<>>

CharacteristicComponents ==
    IF finding.characteristics.kind = "list"
    THEN SelectSeq(finding.characteristics.items, LAMBDA item : item # <<>>)
    ELSE IF finding.characteristics.value # <<>> THEN <<finding.characteristics.value>>
    ELSE <<>>

SizeComponent ==
    IF finding.size_mm = Num(6) THEN <<<<"6", "m", "m">>>>
    ELSE IF finding.size_mm = Num(12) THEN <<<<"1", "2", "m", "m">>>>
    ELSE <<>>

LocationComponent ==
    IF finding.location # <<>> THEN <<finding.location>>
    ELSE IF finding.anatomical_location # <<>> THEN <<finding.anatomical_location>>
    ELSE <<>>

RiskComponent ==
    IF finding.risk_level = S_HIGH_risk_smoker
    THEN <<<<"h", "i", "g", "h", " ", "r", "i", "s", "k", " ", "p", "a", "t", "i", "e", "n", "t">>>>
    ELSE IF finding.risk_level = S_low
    THEN <<<<"l", "o", "w", " ", "r", "i", "s", "k", " ", "p", "a", "t", "i", "e", "n", "t">>>>
    ELSE <<>>

Available ==
    TypeComponent \o CharacteristicComponents \o SizeComponent \o LocationComponent
    \o RiskComponent

EndsWith(str, tail) ==
    /\ Len(str) >= Len(tail)
    /\ SubSeq(str, Len(str) - Len(tail) + 1, Len(str)) = tail

\* C15: build_query_text returns the available components in the order type,
\* characteristics, size as "<size>mm", location, "<level> risk patient",
\* joined by single blanks and ending with "follow-up recommendation"; the
\* placeholder "incidental imaging finding" stands in exactly when no
\* component is available.
C15_QueryText ==
    op = "build_query_text" =>
        /\ EndsWith(query_text, S_suffix)
        /\ Contains(query_text, S_placeholder) <=> Available = <<>>
        /\ Available = <<>> =>
              query_text = 
                  <<"i", "n", "c", "i", "d", "e", "n", "t", "a", "l", " ", "i",
                  "m", "a", "g", "i", "n", "g", " ", "f", "i", "n", "d", "i",
                  "n", "g", " ", "f", "o", "l", "l", "o", "w", "-", "u", "p",
                  " ", "r", "e", "c", "o", "m", "m", "e", "n", "d", "a", "t",
                  "i", "o", "n">>
        /\ Available # <<>> => query_text = JoinSpaces(Available \o <<S_suffix>>)

\* C15 witness: the finding of the test, with two characteristics, gives
\* "Pulmonary nodule ground-glass part-solid 6mm RUL high risk patient
\* follow-up recommendation".
C15_Witness ==
    /\ op = "build_query_text"
    /\ finding.finding_type = <<>> /\ finding.anatomical_location = <<>>
    /\ query_text = 
                  <<"P", "u", "l", "m", "o", "n", "a", "r", "y", " ", "n", "o",
                  "d", "u", "l", "e", " ", "g", "r", "o", "u", "n", "d", "-",
                  "g", "l", "a", "s", "s", " ", "p", "a", "r", "t", "-", "s",
                  "o", "l", "i", "d", " ", "6", "m", "m", " ", "R", "U", "L",
                  " ", "h", "i", "g", "h", " ", "r", "i", "s", "k", " ", "p",
                  "a", "t", "i", "e", "n", "t", " ", "f", "o", "l", "l", "o",
                  "w", "-", "u", "p", " ", "r", "e", "c", "o", "m", "m", "e",
                  "n", "d", "a", "t", "i", "o", "n">>

---------------------------------------------------------------------------
(* Claims about indexing and the end-to-end scenario.                      *)

HoldsSubsolid(category) ==
    \E i \in 1..(Len(category) - 1) :
        category[i] = "Subsolid" /\ category[i + 1] = "Nodules"

DirectoryHasSubsolid ==
    \E i \in 1..Len(directory) :
        \E j \in 1..Len(directory[i].content) :
            directory[i].content[j].title = <<"Subsolid", "Nodules">>

(* A stored document as the scenario's query needs it: a pulmonary source  *)
(* name, a size range holding 6 mm, the risk level "high".                 *)
MatchesScenario(doc) ==
    /\ doc.metadata["source"] \in {Fleischner, LungRads}
    /\ {"size_min_mm", "size_max_mm", "risk_level"} \subseteq DOMAIN doc.metadata
    /\ doc.metadata["size_min_mm"] <= 6
    /\ doc.metadata["size_max_mm"] >= 6
    /\ doc.metadata["risk_level"] = S_high

ScenarioIds == {store[i].id : i \in {j \in 1..Len(store) : MatchesScenario(store[j])}}

\* C16 as stated: once a guideline with a section "Subsolid Nodules" holding
\* ">= 6 mm" and "high risk" is indexed, retrieve with the scenario's finding
\* and top_k = 1 returns exactly one chunk, the one holding that section.
C16_SubsolidRetrieved ==
    (op = "retrieve" /\ top_k = 1 /\ DirectoryHasSubsolid) =>
        /\ Len(retrieved) = 1
        /\ HoldsSubsolid(retrieved[1].category)

\* C16 as amended: that call returns exactly one chunk when some stored chunk
\* has a pulmonary source name, an inferred size range holding 6 mm and the
\* inferred risk level "high", and the chunk returned is one of those; it
\* returns nothing when no stored chunk has all three.
C16_SubsolidRetrievedWhenMatching ==
    (op = "retrieve" /\ top_k = 1) =>
        IF ScenarioIds = {} THEN retrieved = <<>>
        ELSE /\ Len(retrieved) = 1
             /\ retrieved[1].chunk_id \in ScenarioIds

\* C16 witness: from a guideline titled with a pulmonary source name that has
\* another, long section before "Subsolid Nodules", the Subsolid chunk alone
\* matches and is the one chunk returned.
C16_Witness ==
    /\ op = "retrieve" /\ top_k = 1
    /\ Len(store) >= 2
    /\ Cardinality(ScenarioIds) = 1
    /\ Len(retrieved) = 1
    /\ HoldsSubsolid(retrieved[1].category)
    /\ retrieved[1].chunk_id \in ScenarioIds

StoredIdSet == {store[i].id : i \in 1..Len(store)}

FaultRaises ==
    /\ fault.file \in 1..Len(directory)
    /\ fault.stage = "load" \/ directory[fault.file].content # <<>>

\* C17: when loading, embedding or upserting the i-th file raises, the
\* indexer ends with that exception as raised, has made no call for a later
\* file, and every document upserted for an earlier file is in the store.
C17_FailureAbortsRun ==
    (op = "index_all_guidelines" /\ FaultRaises) =>
        /\ error = (CASE fault.stage = "load" -> "FileNotFoundError"
                      [] fault.stage = "embed" -> "NIMServiceError"
                      [] fault.stage = "upsert" -> "VectorStoreError")
        /\ \A k \in 1..Len(calls) : calls[k].file <= fault.file
        /\ \A k \in 1..Len(calls) :
              (calls[k].fn = "index_batch" /\ calls[k].file < fault.file) =>
                  \A j \in 1..Len(calls[k].ids) : calls[k].ids[j] \in StoredIdSet

\* C17 witness: upserting the second file failed after its first document
\* was written; the documents of the first file are still stored.
C17_Witness ==
    /\ op = "index_all_guidelines"
    /\ fault = [file |-> 2, stage |-> "upsert", partial |-> TRUE]
    /\ error = "VectorStoreError"
    /\ \E k \in 1..Len(calls) :
          /\ calls[k].fn = "index_batch" /\ calls[k].file = 1
          /\ Len(calls[k].ids) >= 2
          /\ Len(store) = Len(calls[k].ids) + 1

ChunklessFiles == {i \in 1..Len(directory) : directory[i].content = <<>>}

\* C18: for a file that yields no chunk the indexer calls neither
\* embed_batch nor index_batch and counts nothing; it raises nothing on its
\* account, and every later file is processed.
C18_ChunklessFileSkipped ==
    op = "index_all_guidelines" =>
        /\ \A k \in 1..Len(calls) :
              calls[k].file \in ChunklessFiles => calls[k].fn = "load_guideline"
        /\ ~FaultRaises =>
              /\ error = ""
              /\ \A i \in 1..Len(directory) :
                    \E k \in 1..Len(calls) :
                        calls[k].fn = "load_guideline" /\ calls[k].file = i
              /\ \A i \in (1..Len(directory)) \ ChunklessFiles :
                    \E k \in 1..Len(calls) :
                        calls[k].fn = "index_batch" /\ calls[k].file = i
              /\ stats.guidelines_indexed =
                    Cardinality((1..Len(directory)) \ ChunklessFiles)
              /\ stats.chunks_indexed = Len(store)

\* C18 witness: the first file yields no chunk and the second one was
\* embedded and upserted in the same run.
C18_Witness ==
    /\ op = "index_all_guidelines" /\ error = ""
    /\ Len(directory) = 2
    /\ ChunklessFiles = {1}
    /\ calls[Len(calls)].fn = "index_batch"
    /\ calls[Len(calls)].file = 2
    /\ stats.guidelines_indexed = 1

\* C19: after the same directory is indexed a second time into the same
\* store, the store holds exactly one document per chunk of the corpus.
C19_ReindexReplaces ==
    op = "index_again" => Len(store) = stats.chunks_indexed

(* The file whose index_batch call carried the document.                   *)
FileOfDocument(id) ==
    CHOOSE i \in 1..Len(directory) :
        \E k \in 1..Len(calls) :
            /\ calls[k].fn = "index_batch" /\ calls[k].file = i
            /\ \E j \in 1..Len(calls[k].ids) : calls[k].ids[j] = id

RequiredKeys == {"source", "category", "citation", "recommendation"}
OptionalKeys == {"size_min_mm", "size_max_mm", "risk_level", "modality"}

\* C20: every document upserted has the keys source, category, citation and
\* recommendation, the citation being the one loaded from its file, and has
\* size_min_mm, size_max_mm, risk_level and modality exactly when the value
\* was inferred from the chunk's text, a lower bound of 0 included.
C20_MetadataKeys ==
    op = "index_all_guidelines" =>
        \A d \in 1..Len(store) :
            LET m == store[d].metadata
                size == _extract_size_range(store[d].text)
            IN  /\ RequiredKeys \subseteq DOMAIN m
                /\ DOMAIN m \subseteq RequiredKeys \cup OptionalKeys
                /\ m["citation"] = directory[FileOfDocument(store[d].id)].reference
                /\ "size_min_mm" \in DOMAIN m <=> size.min # <<>>
                /\ "size_max_mm" \in DOMAIN m <=> size.max # <<>>
                /\ "size_min_mm" \in DOMAIN m => m["size_min_mm"] = size.min[1]
                /\ "size_max_mm" \in DOMAIN m => m["size_max_mm"] = size.max[1]
                /\ "risk_level" \in DOMAIN m <=> _infer_risk_level(store[d].text) # <<>>
                /\ "modality" \in DOMAIN m <=> _infer_modality(store[d].text) # ""

\* C20 witness: one stored document has the lower bound 0 and a modality,
\* another has none of the optional keys; both carry their file's citation.
C20_Witness ==
    /\ op = "index_all_guidelines"
    /\ \E d \in 1..Len(store) :
          /\ "size_min_mm" \in DOMAIN store[d].metadata
          /\ store[d].metadata["size_min_mm"] = 0
          /\ store[d].metadata["modality"] = "PET-CT"
          /\ store[d].metadata["citation"] = "MacMahon H, et al. Radiology 2017"
    /\ \E d \in 1..Len(store) : DOMAIN store[d].metadata = RequiredKeys

---------------------------------------------------------------------------
(* Claims about the text of a chunk and the metadata inferred from it.     *)

HasFeed(str) == \E j \in 1..Len(str) : str[j] = "FF"

ChunkString(i) == TextLines(chunks[i].category, chunks[i].recommendation)

ExtractedFrom(i) == JoinLines(_extract_recommendation(SplitLines(ChunkString(i))))

TextIsTitleBlankBody(i) ==
    /\ SelectSeq(ChunkString(i), LAMBDA t : t # "LF") = chunks[i].text
    /\ ChunkString(i) =
          chunks[i].category \o <<"LF", "LF">> \o BodyString(chunks[i].recommendation)

\* C21 as stated: the text of every chunk chunk_guideline returns is its
\* category, a blank line and its recommendation, and the text without its
\* first line, trimmed, is the recommendation.
C21_FirstLineOffGivesBody ==
    op = "chunk_guideline" =>
        \A i \in 1..Len(chunks) :
            /\ TextIsTitleBlankBody(i)
            /\ ExtractedFrom(i) = BodyString(chunks[i].recommendation)

\* C21 as amended: the text of every chunk is its category, a blank line and
\* its recommendation; the text without its first line, trimmed, is the
\* recommendation exactly when neither the category nor the recommendation
\* holds a line boundary other than a newline.
C21_FirstLineOffGivesBodyUnlessFeed ==
    op = "chunk_guideline" =>
        \A i \in 1..Len(chunks) :
            /\ TextIsTitleBlankBody(i)
            /\ chunks[i].category # <<>>
            /\ ExtractedFrom(i) = BodyString(chunks[i].recommendation)
                  <=> ~HasFeed(ChunkString(i))

\* C21 witness: a chunk merged from two sections, its body of two
\* paragraphs, without a form feed, whose text gives back its body.
C21_Witness ==
    /\ op = "chunk_guideline"
    /\ \E i \in 1..Len(chunks) :
          /\ Merged(chunks[i])
          /\ Len(chunks[i].recommendation) >= 2
          /\ ~HasFeed(ChunkString(i))
          /\ SplitLines(ChunkString(i))[2] = ""
          /\ ExtractedFrom(i) = BodyString(chunks[i].recommendation)

(* The six families as the guideline texts write them, in the order of     *)
(* precedence: a composite range is written with a hyphen or an en dash.   *)
WrittenFamilies ==
    << [pats |-> {<<"NUM", "-", "NUM", "mm">>, <<"NUM", "en dash", "NUM", "mm">>},
        kind |-> "range"],
       [pats |-> {<<">=", "NUM", "mm">>}, kind |-> "gte"],
       [pats |-> {<<"<=", "NUM", "mm">>}, kind |-> "lte"],
       [pats |-> {<<"<", "NUM", "mm">>}, kind |-> "lt"],
       [pats |-> {<<">", "NUM", "mm">>}, kind |-> "gt"],
       [pats |-> {<<"NUM", "mm">>}, kind |-> "single"] >>

Written(text, k) == {pat \in WrittenFamilies[k].pats : Search(text, pat) # 0}

RangeAsWritten(text) ==
    LET found == {k \in 1..Len(WrittenFamilies) : Written(text, k) # {}}
    IN  IF found = {} THEN [min |-> <<>>, max |-> <<>>]
        ELSE LET k == Min(found)
                 pat == CHOOSE p \in Written(text, k) :
                            \A q \in Written(text, k) : Search(text, p) <= Search(text, q)
             IN  RangeOfMatch(WrittenFamilies[k].kind, Groups(text, Search(text, pat), pat))

\* C22: the size range of a chunk is decided by the first of the six
\* families, in the fixed order, that is written anywhere in its text,
\* wherever the other families match; no family written gives no bounds.
C22_FirstWrittenFamilyDecides ==
    op = "chunk_guideline" =>
        \A i \in 1..Len(chunks) :
            [min |-> chunks[i].size_min_mm, max |-> chunks[i].size_max_mm]
                = RangeAsWritten(chunks[i].text)

(* The levels whose phrase a text holds, in any case.                      *)
LevelsIn(text) ==
    LET Holds(spellings) == \E j \in 1..Len(text) : text[j] \in spellings
    IN  (IF Holds({"High risk", "high risk"}) THEN {S_high} ELSE {})
        \cup (IF Holds({"low risk"}) THEN {S_low} ELSE {})
        \cup (IF Holds({"Intermediate risk"}) THEN {S_intermediate} ELSE {})

\* C23: the risk level of a chunk is None when its text holds no risk
\* phrase, the level when the phrases of exactly one level occur, however
\* often and in whatever case, and "mixed" when two or three levels occur.
C23_RiskLevelOfPhrases ==
    op = "chunk_guideline" =>
        \A i \in 1..Len(chunks) :
            LET levels == LevelsIn(chunks[i].text)
            IN  /\ levels = {} => chunks[i].risk_level = <<>>
                /\ Cardinality(levels) = 1 => chunks[i].risk_level \in levels
                /\ Cardinality(levels) >= 2 => chunks[i].risk_level = S_mixed

\* C23 witness: a text with the phrase of one level in both cases and the
\* phrase of another level, whose chunk is "mixed".
C23_Witness ==
    /\ op = "chunk_guideline"
    /\ \E i \in 1..Len(chunks) :
          /\ \E j \in 1..Len(chunks[i].text) : chunks[i].text[j] = "High risk"
          /\ \E j \in 1..Len(chunks[i].text) : chunks[i].text[j] = "high risk"
          /\ \E j \in 1..Len(chunks[i].text) : chunks[i].text[j] = "Intermediate risk"
          /\ chunks[i].risk_level = S_mixed

---------------------------------------------------------------------------
(* Claims about merging and what chunking keeps.                           *)

(* The sections chunk_guideline hands to _merge_small_sections.            *)
Processed == ProcessSections(SectionsOf(content))

StartsWith(seq, prefix) ==
    Len(prefix) <= Len(seq) /\ SubSeq(seq, 1, Len(prefix)) = prefix

\* C24: a section of at least MIN_WORDS words is never folded into the
\* buffer of small sections: a chunk starts with its title and its body
\* (only a leftover buffer at the end of the list may be joined after it).
C24_LargeSectionNotFolded ==
    op = "chunk_guideline" =>
        \A k \in 1..Len(Processed) :
            Processed[k].word_count >= MIN_WORDS =>
                \E i \in 1..Len(chunks) :
                    /\ StartsWith(chunks[i].category, Processed[k].title)
                    /\ StartsWith(chunks[i].recommendation, Processed[k].body)

\* C25: a leftover buffer is joined to the last chunk emitted before it and
\* is a chunk of its own, even under MIN_WORDS, when there is none; so
\* chunk_guideline returns no chunk exactly when the content is blank.
C25_LeftoverKept ==
    op = "chunk_guideline" =>
        /\ chunks = <<>> <=> content = <<>>
        /\ Len(Processed) = 1 =>
              /\ Len(chunks) = 1
              /\ chunks[1].category = Processed[1].title
              /\ chunks[1].recommendation = Processed[1].body
        /\ (Len(Processed) >= 2 /\ Processed[Len(Processed)].word_count < MIN_WORDS) =>
              /\ Merged(chunks[Len(chunks)])
              /\ \E j \in 1..Len(chunks[Len(chunks)].recommendation) :
                    SubSeq(chunks[Len(chunks)].recommendation, j,
                           Len(chunks[Len(chunks)].recommendation))
                        = Processed[Len(Processed)].body

\* C25 witness: two sections were emitted, then a section under MIN_WORDS
\* was left in the buffer and joined to the second chunk.
C25_Witness ==
    /\ op = "chunk_guideline"
    /\ Len(Processed) = 3
    /\ Processed[1].word_count >= MIN_WORDS
    /\ Processed[2].word_count >= MIN_WORDS
    /\ Processed[3].word_count < MIN_WORDS
    /\ Len(chunks) = 2
    /\ chunks[2].category = Processed[2].title \o <<"|">> \o Processed[3].title

---------------------------------------------------------------------------
(* The two backend queries of hybrid_search, as the operation logged them. *)
BackendQueries ==
    SelectSeq(calls, LAMBDA c : c.fn \in {"_semantic_search", "_keyword_search"})

\* C26: on the hybrid path of retrieve, the semantic query and the lexical
\* query sent to the backend each ask for max(3 * top_k, 15) candidates.
C26_SubQueriesAskSearchTopK ==
    (op = "retrieve" /\ error = ""
        /\ \E i \in 1..Len(calls) : calls[i].fn = "hybrid_search") =>
        /\ Len(BackendQueries) = 2
        /\ \A i \in 1..Len(BackendQueries) :
              BackendQueries[i].top_k = (IF 3 * top_k > 15 THEN 3 * top_k ELSE 15)

---------------------------------------------------------------------------
\* C27: every embed_batch call and every index_batch call of
\* index_all_guidelines is handed the batch_size the run was called with.
C27_BatchSizeHandedOn ==
    op \in {"index_all_guidelines", "index_again"} =>
        \A k \in 1..Len(calls) :
            calls[k].fn \in {"embed_batch", "index_batch"} =>
                calls[k].batch_size = batch_size

---------------------------------------------------------------------------
\* C28: rerank_results returns one document per input document, each with
\* the id, text and metadata of its input, and leaves the documents of the
\* input list as they were, scores included.
C28_RerankChangesOnlyScores ==
    [][op' = "rerank_results" =>
        /\ Len(reranked') = Len(results)
        /\ \A i \in 1..Len(results) :
              \E j \in 1..Len(reranked') :
                 /\ reranked'[j].id = results[i].id
                 /\ reranked'[j].text = results[i].text
                 /\ reranked'[j].metadata = results[i].metadata
                 /\ \A m \in 1..Len(reranked') : reranked'[m].id = results[i].id => m = j
        /\ results' = results]_vars

\* C28 witness: two candidates were reranked, the second came out first
\* and with another score than it went in with.
C28_Witness ==
    /\ op = "rerank_results"
    /\ Len(results) = 2 /\ Len(reranked) = 2
    /\ reranked[1].id = results[2].id
    /\ reranked[1].score # results[2].score
    /\ reranked[2].id = results[1].id

---------------------------------------------------------------------------
(* The sentences, in order, of the bodies of a list of sections or chunks. *)
RECURSIVE SentencesOfBodies(_)
SentencesOfBodies(bodies) ==
    IF bodies = <<>> THEN <<>>
    ELSE Sentences(Head(bodies)) \o SentencesOfBodies(Tail(bodies))

ChunkBodies == [i \in 1..Len(chunks) |-> chunks[i].recommendation]

ParsedBodies ==
    [i \in 1..Len(_parse_sections(content)) |-> _parse_sections(content)[i].body]

\* C29: the words of the bodies of the chunks chunk_guideline returns, in
\* order, are the words of the bodies of the non-empty sections parsed
\* from the content, in order: none dropped, duplicated or moved.
C29_ChunkingPreservesWords ==
    op = "chunk_guideline" =>
        SentencesOfBodies(ChunkBodies) = SentencesOfBodies(ParsedBodies)

---------------------------------------------------------------------------
(* The attempts made for the c-th backend call of the operation.           *)
CallAttempts(c) == SelectSeq(attempts, LAMBDA a : a.call = c)

RetryableErrors == {"OpenSearchException", "TransportError", "ConnectionError"}

Exhausted(log) ==
    /\ log # <<>>
    /\ \A i \in 1..Len(log) : log[i].answer # "response"
    /\ Len(log) = 3 \/ log[Len(log)].answer \notin RetryableErrors

\* C30: every backend call of a public VectorStore operation is attempted
\* at most three times, a further attempt follows only an OpenSearch,
\* transport or connection error, the call returns the response of its
\* first successful attempt, and VectorStoreError is raised exactly when
\* a call ended without a successful attempt.
C30_RetryDiscipline ==
    operation # "" =>
        /\ \A c \in 1..Len(backend_calls) :
              /\ Len(CallAttempts(c)) <= 3
              /\ \A i \in 1..Len(CallAttempts(c)) : CallAttempts(c)[i].attempt = i
              /\ \A i \in 1..(Len(CallAttempts(c)) - 1) :
                    CallAttempts(c)[i].answer \in RetryableErrors
              /\ c < call_index =>
                    /\ CallAttempts(c) # <<>>
                    /\ CallAttempts(c)[Len(CallAttempts(c))].answer = "response"
                    /\ responses[c] = [call |-> c, attempt |-> Len(CallAttempts(c))]
              /\ c > call_index => CallAttempts(c) = <<>>
        /\ Len(responses) = call_index - 1
        /\ error \in {"", "VectorStoreError"}
        /\ error = "VectorStoreError"
              <=> (call_index <= Len(backend_calls) /\ Exhausted(CallAttempts(call_index)))

\* C30 witness: index_batch with two batches; the first batch went through
\* at its third attempt, the second failed three times and the operation
\* raised VectorStoreError.
C30_Witness ==
    /\ operation = "index_batch" /\ Len(backend_calls) = 2
    /\ responses = <<[call |-> 1, attempt |-> 3]>>
    /\ Len(CallAttempts(2)) = 3
    /\ last_error = "TransportError"
    /\ error = "VectorStoreError"

====
